---- MODULE Spec2Model ----
(***************************************************************************)
(* A model of the procedural composition engine of infinite-radio:         *)
(* the music-theory primitives (music-theory.ts, kept in                   *)
(* src/shared/types.d.ts), the segment orchestrator generateSegment        *)
(* (src/server/src/generator.ts) and the session store                     *)
(* (src/server/src/feedback-manager.ts).                                   *)
(*                                                                         *)
(* Strings that the code takes apart (pitch names, keys) are sequences of  *)
(* one-character strings, so that the regular expression of noteToMidi,    *)
(* parseInt and the string concatenation of midiToNote are computed, not   *)
(* assumed.  Math.random() is a nondeterministic choice.  Floating point   *)
(* quantities are fixed-point integers in hundredths.                      *)
(***************************************************************************)
EXTENDS Integers, Sequences, FiniteSets, TLC

(***************************************************************************)
(* JavaScript values and arithmetic                                        *)
(***************************************************************************)

\* The JS value undefined (an out-of-range array read, a missing match).
Undefined == <<"undefined">>

\* The JS number NaN, as produced by undefined + number.
NaN == <<"NaN">>

\* typeof v === 'string' : a value on which .match and .replace exist.
IsString(v) == v # Undefined /\ v # NaN

\* The JS remainder a % n for n > 0: it takes the sign of the dividend.
JsRem(a, n) == IF a >= 0 THEN a % n ELSE -((-a) % n)

\* Math.floor(a / n) for n > 0.
FloorDiv(a, n) == IF a >= 0 THEN a \div n ELSE -(((-a) + n - 1) \div n)

Min(a, b) == IF a < b THEN a ELSE b

Max(a, b) == IF a > b THEN a ELSE b

Digits == <<"0", "1", "2", "3", "4", "5", "6", "7", "8", "9">>

IsDigit(c) == \E i \in 1..10 : Digits[i] = c

DigitValue(c) == (CHOOSE i \in 1..10 : Digits[i] = c) - 1

\* parseInt(s) of a string of decimal digits.
RECURSIVE parseInt(_)
parseInt(s) ==
  IF s = <<>> THEN 0
  ELSE 10 * parseInt(SubSeq(s, 1, Len(s) - 1)) + DigitValue(s[Len(s)])

\* String(n) of an integer n.
RECURSIVE NatStr(_)
NatStr(n) == IF n < 10 THEN <<Digits[n + 1]>>
             ELSE NatStr(n \div 10) \o <<Digits[(n % 10) + 1]>>

NumStr(n) == IF n < 0 THEN <<"-">> \o NatStr(-n) ELSE NatStr(n)

\* JS  s + n  where s is an array read that may be undefined: string
\* concatenation for a string, NaN for undefined.
PlusNum(s, n) == IF s = Undefined THEN NaN ELSE s \o NumStr(n)

\* arr[i] of a JS array held as a 1-based sequence.
At(arr, i) == IF i >= 0 /\ i < Len(arr) THEN arr[i + 1] ELSE Undefined

\* arr.indexOf(x)
IndexOf(arr, x) ==
  IF \E i \in 1..Len(arr) : arr[i] = x
  THEN (CHOOSE i \in 1..Len(arr) : arr[i] = x /\ \A j \in 1..(i - 1) : arr[j] # x) - 1
  ELSE -1

(***************************************************************************)
(* Music theory primitives (music-theory.ts)                               *)
(***************************************************************************)

NOTES == << <<"C">>, <<"C", "#">>, <<"D">>, <<"D", "#">>, <<"E">>, <<"F">>,
            <<"F", "#">>, <<"G">>, <<"G", "#">>, <<"A">>, <<"A", "#">>, <<"B">> >>

Letters == {"A", "B", "C", "D", "E", "F", "G"}

\* Where the octave digits start if note matches /^([A-G]#?)(\d+)$/, else 0.
MatchSplit(note) ==
  IF Len(note) < 2 \/ note[1] \notin Letters THEN 0
  ELSE LET k == IF note[2] = "#" THEN 3 ELSE 2
       IN IF k <= Len(note) /\ \A i \in k..Len(note) : IsDigit(note[i])
          THEN k ELSE 0

\* noteToMidi(note) for a string note.
noteToMidi(note) ==
  LET k == MatchSplit(note)
  IN IF k = 0 THEN 60
     ELSE IndexOf(NOTES, SubSeq(note, 1, k - 1))
            + (parseInt(SubSeq(note, k, Len(note))) + 1) * 12

\* midiToNote(midi)
midiToNote(midi) ==
  PlusNum(At(NOTES, JsRem(midi, 12)), FloorDiv(midi, 12) - 1)


\* table[key] || fallback, for an object literal keyed by strings.
Lookup(table, key, fallback) ==
  IF key \in DOMAIN table THEN table[key] ELSE fallback

SCALES ==
  [ major |-> <<0, 2, 4, 5, 7, 9, 11>>,
    minor |-> <<0, 2, 3, 5, 7, 8, 10>>,
    dorian |-> <<0, 2, 3, 5, 7, 9, 10>>,
    mixolydian |-> <<0, 2, 4, 5, 7, 9, 10>>,
    pentatonic |-> <<0, 2, 4, 7, 9>>,
    minorPentatonic |-> <<0, 3, 5, 7, 10>>,
    blues |-> <<0, 3, 5, 6, 7, 10>>,
    chromatic |-> <<0, 1, 2, 3, 4, 5, 6, 7, 8, 9, 10, 11>> ]

CHORDS ==
  [ major |-> <<0, 4, 7>>,
    minor |-> <<0, 3, 7>>,
    dim |-> <<0, 3, 6>>,
    aug |-> <<0, 4, 8>>,
    maj7 |-> <<0, 4, 7, 11>>,
    min7 |-> <<0, 3, 7, 10>>,
    dom7 |-> <<0, 4, 7, 10>>,
    sus2 |-> <<0, 2, 7>>,
    sus4 |-> <<0, 5, 7>> ]

PROGRESSIONS ==
  [ pop |-> << <<0, "major">>, <<5, "major">>, <<3, "minor">>, <<4, "major">> >>,
    jazz |-> << <<1, "min7">>, <<4, "dom7">>, <<0, "maj7">>, <<0, "maj7">> >>,
    blues |-> << <<0, "dom7">>, <<0, "dom7">>, <<0, "dom7">>, <<0, "dom7">>,
                 <<3, "dom7">>, <<3, "dom7">>, <<0, "dom7">>, <<0, "dom7">>,
                 <<4, "dom7">>, <<3, "dom7">>, <<0, "dom7">>, <<4, "dom7">> >>,
    ambient |-> << <<0, "maj7">>, <<2, "minor">>, <<4, "major">>, <<3, "minor">> >>,
    lofi |-> << <<0, "maj7">>, <<3, "min7">>, <<4, "dom7">>, <<0, "maj7">> >>,
    classical |-> << <<0, "major">>, <<3, "major">>, <<4, "major">>, <<0, "major">> >>,
    electronic |-> << <<0, "minor">>, <<5, "minor">>, <<3, "major">>, <<4, "major">> >> ]

\* The notes of an interval pattern above the root with index rootIndex:
\* the body shared by getScale and getChord.
PatternNotes(rootIndex, pattern, octave) ==
  [ i \in 1..Len(pattern) |->
      PlusNum(At(NOTES, JsRem(rootIndex + pattern[i], 12)),
              octave + FloorDiv(rootIndex + pattern[i], 12)) ]

\* getChord(root, chordType, octave); root is a note name or undefined.
getChord(root, chordType, octave) ==
  PatternNotes(IndexOf(NOTES, root), Lookup(CHORDS, chordType, CHORDS.major), octave)

\* getChordFromDegree(root, scaleType, degree, chordType, octave)
getChordFromDegree(root, scaleType, degree, chordType, octave) ==
  LET scale == Lookup(SCALES, scaleType, SCALES.major)
      chordRootInterval == scale[(degree % Len(scale)) + 1]
      chordRootIndex == JsRem(IndexOf(NOTES, root) + chordRootInterval, 12)
  IN getChord(At(NOTES, chordRootIndex), chordType, octave)

\* getProgression(style)
getProgression(style) == Lookup(PROGRESSIONS, style, PROGRESSIONS.pop)

STYLE_PARAMS ==
  [ ambient |-> [ noteDensity |-> 30, octaveRange |-> <<3, 5>>, useSustain |-> TRUE ],
    lofi |-> [ noteDensity |-> 50, octaveRange |-> <<3, 5>>, useSustain |-> TRUE ],
    electronic |-> [ noteDensity |-> 70, octaveRange |-> <<2, 6>>, useSustain |-> FALSE ],
    classical |-> [ noteDensity |-> 60, octaveRange |-> <<3, 6>>, useSustain |-> TRUE ],
    jazz |-> [ noteDensity |-> 60, octaveRange |-> <<3, 5>>, useSustain |-> TRUE ] ]

(***************************************************************************)
(* generator.ts: tables and helpers                                        *)
(***************************************************************************)

\* The scale patterns local to the generator's own getScale.
GeneratorPatterns ==
  [ major |-> <<0, 2, 4, 5, 7, 9, 11>>,
    minor |-> <<0, 2, 3, 5, 7, 8, 10>>,
    dorian |-> <<0, 2, 3, 5, 7, 9, 10>>,
    mixolydian |-> <<0, 2, 4, 5, 7, 9, 10>>,
    pentatonic |-> <<0, 2, 4, 7, 9>> ]

\* getScale(root, mode, octave) of generator.ts
getScale(root, mode, octave) ==
  PatternNotes(IndexOf(NOTES, root),
               Lookup(GeneratorPatterns, mode, GeneratorPatterns.major), octave)

DRUM_PATTERNS ==
  [ ambient |-> [ kick |-> {0}, snare |-> {}, hihat |-> {}, ride |-> {} ],
    lofi |-> [ kick |-> {0, 8}, snare |-> {4, 12},
               hihat |-> {0, 2, 4, 6, 8, 10, 12, 14}, ride |-> {} ],
    electronic |-> [ kick |-> {0, 4, 8, 12}, snare |-> {4, 12},
                     hihat |-> 0..15, ride |-> {} ],
    classical |-> [ kick |-> {}, snare |-> {}, hihat |-> {}, ride |-> {} ],
    jazz |-> [ kick |-> {0, 6, 14}, snare |-> {}, hihat |-> {},
               ride |-> {0, 2, 3, 5, 6, 8, 9, 11, 12, 14} ] ]

\* The drum grid generateDrums uses for a style (the slots that are 1).
DrumPatternFor(style) == Lookup(DRUM_PATTERNS, style, DRUM_PATTERNS.lofi)

INSTRUMENTS ==
  [ ambient |-> [ melody |-> 89, chords |-> 52, bass |-> 39, pad |-> 92 ],
    lofi |-> [ melody |-> 5, chords |-> 1, bass |-> 33, pad |-> 89 ],
    electronic |-> [ melody |-> 81, chords |-> 63, bass |-> 38, pad |-> 95 ],
    classical |-> [ melody |-> 41, chords |-> 49, bass |-> 43, pad |-> 49 ],
    jazz |-> [ melody |-> 66, chords |-> 1, bass |-> 33, pad |-> 52 ] ]

\* getInstrumentsForStyle(style)
getInstrumentsForStyle(style) == Lookup(INSTRUMENTS, style, INSTRUMENTS.ambient)

\* The style parameters generateSegment uses.
StyleParamsFor(style) == Lookup(STYLE_PARAMS, style, STYLE_PARAMS.ambient)

RATES == [ ambient |-> 4, lofi |-> 2, electronic |-> 2, classical |-> 1, jazz |-> 1 ]

\* getProgressionRate(style)
getProgressionRate(style) == Lookup(RATES, style, 2)

\* A variant of SECTION_CONFIGS in which the intro has a melody.
SectionConfigsMelodicIntro ==
  [ intro |-> [ melody |-> TRUE, chords |-> TRUE, bass |-> TRUE, pad |-> TRUE,
                drums |-> "none", density |-> 30, velocityMod |-> -15 ],
    verse |-> [ melody |-> TRUE, chords |-> TRUE, bass |-> TRUE, pad |-> TRUE,
                drums |-> "light", density |-> 60, velocityMod |-> -5 ],
    build |-> [ melody |-> TRUE, chords |-> TRUE, bass |-> TRUE, pad |-> TRUE,
                drums |-> "building", density |-> 80, velocityMod |-> 5 ],
    climax |-> [ melody |-> TRUE, chords |-> TRUE, bass |-> TRUE, pad |-> TRUE,
                 drums |-> "full", density |-> 100, velocityMod |-> 15 ],
    outro |-> [ melody |-> TRUE, chords |-> FALSE, bass |-> TRUE, pad |-> TRUE,
                drums |-> "minimal", density |-> 40, velocityMod |-> -10 ] ]

SECTION_CONFIGS ==
  [ intro |-> [ melody |-> FALSE, chords |-> TRUE, bass |-> TRUE, pad |-> TRUE,
                drums |-> "none", density |-> 30, velocityMod |-> -15 ],
    verse |-> [ melody |-> TRUE, chords |-> TRUE, bass |-> TRUE, pad |-> TRUE,
                drums |-> "light", density |-> 60, velocityMod |-> -5 ],
    build |-> [ melody |-> TRUE, chords |-> TRUE, bass |-> TRUE, pad |-> TRUE,
                drums |-> "building", density |-> 80, velocityMod |-> 5 ],
    climax |-> [ melody |-> TRUE, chords |-> TRUE, bass |-> TRUE, pad |-> TRUE,
                 drums |-> "full", density |-> 100, velocityMod |-> 15 ],
    outro |-> [ melody |-> TRUE, chords |-> FALSE, bass |-> TRUE, pad |-> TRUE,
                drums |-> "minimal", density |-> 40, velocityMod |-> -10 ] ]

\* A variant of FracLess that also holds at the threshold.
FracAtMost(a, b, num, den) == a * den <= num * b

\* a / b < num / den  for b, den > 0: the comparisons of a bar fraction with
\* a decimal threshold.
FracLess(a, b, num, den) == a * den < num * b

\* getSongSection(barNumber, totalBars, totalBarsOffset, extensionDirection)
getSongSection(barNumber, totalBars, totalBarsOffset, extensionDirection) ==
  IF totalBarsOffset > 0 THEN
    CASE extensionDirection = "build" ->
           IF FracLess(barNumber, totalBars, 3, 10) THEN "verse"
           ELSE IF FracLess(barNumber, totalBars, 7, 10) THEN "build"
           ELSE "climax"
      [] extensionDirection = "peak" ->
           IF FracLess(barNumber, totalBars, 1, 10) THEN "build" ELSE "climax"
      [] extensionDirection = "wind_down" ->
           IF FracLess(barNumber, totalBars, 6, 10) THEN "verse" ELSE "outro"
      [] extensionDirection = "contrast" ->
           IF FracLess(barNumber, totalBars, 25, 100) THEN "intro"
           ELSE IF FracLess(barNumber, totalBars, 5, 10) THEN "verse"
           ELSE IF FracLess(barNumber, totalBars, 75, 100) THEN "build"
           ELSE "climax"
      [] OTHER ->
           LET n == totalBarsOffset + barNumber
               d == totalBarsOffset + totalBars + 32
           IN IF FracLess(n, d, 2, 10) THEN "verse"
              ELSE IF FracLess(n, d, 4, 10) THEN "build"
              ELSE IF FracLess(n, d, 7, 10) THEN "climax"
              ELSE IF FracLess(n, d, 9, 10) THEN "build"
              ELSE "outro"
  ELSE
    IF FracLess(barNumber, totalBars, 10, 100) THEN "intro"
    ELSE IF FracLess(barNumber, totalBars, 35, 100) THEN "verse"
    ELSE IF FracLess(barNumber, totalBars, 60, 100) THEN "build"
    ELSE IF FracLess(barNumber, totalBars, 85, 100) THEN "climax"
    ELSE "outro"

\* The walk of generateMotif from a start degree with the given steps.
RECURSIVE MotifWalk(_, _, _)
MotifWalk(current, steps, scaleLength) ==
  IF steps = <<>> THEN <<current>>
  ELSE <<current>> \o MotifWalk(Max(0, Min(scaleLength - 1, current + steps[1])),
                                Tail(steps), scaleLength)

\* The start degrees and the steps the enumeration draws for generateMotif
\* (the code draws the start from 2..4 and each step from {1, -1, 2, -2}).
MotifStarts == {4}

MotifSteps == {<<1, -2, 1>>}

\* generateMotif(scaleLength): the motifs it can return, here those of the
\* shortest length, 4.
generateMotif(scaleLength) ==
  { MotifWalk(s, st, scaleLength) : s \in MotifStarts, st \in MotifSteps }

\* varyMotif(motif, variation, scaleLength)
varyMotif(motif, variation, scaleLength) ==
  CASE variation % 4 = 0 -> motif
    [] variation % 4 = 1 -> [ i \in 1..Len(motif) |-> Min(scaleLength - 1, motif[i] + 2) ]
    [] variation % 4 = 2 -> [ i \in 1..Len(motif) |-> motif[Len(motif) + 1 - i] ]
    [] OTHER -> [ i \in 1..Len(motif) |-> Max(0, scaleLength - 1 - motif[i]) ]

\* Math.sin(progress * Math.PI) * 8 for progress = bar / total in [0, 1),
\* in hundredths, by Bhaskara's rational approximation of the sine
\* (absolute error below 0.02 velocity units).
ArcDynamic(currentBar, totalBars) ==
  LET p == currentBar * (totalBars - currentBar)
  IN (12800 * p) \div (5 * totalBars * totalBars - 4 * p)

LevelBase == [ soft |-> 55, medium |-> 72, loud |-> 88 ]

\* getBaseVelocity(dynamics, currentBar, totalBars), in hundredths.
getBaseVelocity(dynamics, currentBar, totalBars) ==
  LET base == Lookup(LevelBase, dynamics.level, 72)
      phrasePos == currentBar % 4
      phraseDynamic == IF phrasePos < 2 THEN phrasePos * 3 ELSE (3 - phrasePos) * 3
  IN Min(10000, Max(4000, base * 100 + dynamics.velocityTrend * 10
                            + phraseDynamic * 100
                            + ArcDynamic(currentBar, totalBars)))

\* The values the enumeration draws for (Math.random() - 0.5) * 0.1, a
\* number in [-0.05, 0.05), in hundredths: the ends of the interval in
\* SpecDynamics, its middle in Spec.
DriftChoices == {-5, 4}

MidDrift == {0}

\* A variant of ClampTrend that clamps nothing.
ClampTrendOff(t) == t

\* The closing clamp of evolveDynamics, in hundredths.
ClampTrend(t) == Max(-100, Min(120, t))

\* evolveDynamics(dynamics, currentBar, totalBars) with its random drift.
evolveDynamics(dynamics, currentBar, totalBars, drift) ==
  LET t == dynamics.velocityTrend
      building1 == FracLess(currentBar, totalBars, 2, 10)
      stable == FracLess(currentBar, totalBars, 7, 10)
      building2 == FracLess(currentBar, totalBars, 9, 10)
      direction == IF building1 THEN "building"
                   ELSE IF stable THEN "stable"
                   ELSE IF building2 THEN "building" ELSE "fading"
      raw == IF building1 THEN Min(100, t + 15)
             ELSE IF stable THEN t + drift
             ELSE IF building2 THEN Min(120, t + 10)
             ELSE Max(-30, t - 10)
      trend == ClampTrend(raw)
  IN [ level |-> IF trend > 60 THEN "loud" ELSE IF trend < -20 THEN "soft" ELSE "medium",
       direction |-> direction,
       velocityTrend |-> trend ]

\* s.replace(/\d+$/, '') for a string s.
RECURSIVE StripDigits(_)
StripDigits(s) ==
  IF s # <<>> /\ IsDigit(s[Len(s)]) THEN StripDigits(SubSeq(s, 1, Len(s) - 1)) ELSE s

(***************************************************************************)
(* State                                                                   *)
(***************************************************************************)

VARIABLES
  pc,              \* "idle", or "loop" while generateSegment runs its bar loop
  options,         \* the GenerationOptions of the running (or last) call
  context,         \* its ContinuationContext, or Null
  bar,             \* the loop variable of generateSegment
  progressionPos,  \* generateSegment's local progressionPos
  dynamics,        \* generateSegment's local dynamics
  motif,           \* generateSegment's motif array: its identity and its notes
  motifVariation,  \* generateSegment's local motifVariation
  lastMelodyNote,  \* generateSegment's local lastMelodyNote
  endingNotes,     \* generateSegment's endingNotes
  mel,             \* the running generateMelody call, or Null
  lastBar,         \* what the last executed bar of the call resolved and used
  info,            \* the SegmentInfo the last completed call returned, or Null
  infoStyle,       \* the style of the call that returned info
  threw,           \* the last call ended with a TypeError
  motifCount,      \* how many motif arrays generateMotif has allocated
  calls,           \* how many generateSegment calls were started
  session,         \* the state of the one stored session, or Null
  pitchPc,         \* "none", "name", "midi" or "back": how far the conversion is
  pitchName,       \* the pitch name handed to noteToMidi
  pitchMidi,       \* the number noteToMidi returned
  pitchBack,       \* the name midiToNote returned for that number
  callPc,          \* "none", "args" or "done": a call of a pure function
  callArgs,        \* the arguments of that call
  callResult,      \* what the call returned
  dynamicsRef,     \* the object the local dynamics refers to: "context" or "local"
  given,           \* the ContinuationContext as it was when the call was made
  nextPattern,     \* the running generateNextPattern call of the radio server
  player,          \* a client's Strudel player and the playPattern call it runs
  journey,         \* the JourneyManager: its currentArc and its counters
  radioState,      \* radioState of the radio server
  generation,      \* the generation loop: its executions, last call, last ai_status
  clients,         \* the clients map: the username of each joined connection
  chatMessages,    \* the chat history
  feedback,        \* the FeedbackManager: its votes and its feedbackHistory
  stored           \* info was handed to updateSessionWithSegment

\* The locals of a generateSegment call.
localVars == <<bar, progressionPos, dynamics, motif, motifVariation, lastMelodyNote,
               endingNotes, mel, lastBar>>

genVars == <<pc, options, context, localVars, info, infoStyle, threw, motifCount, calls,
             dynamicsRef, given>>

storeVars == <<session, stored>>

\* A conversion of one pitch name to a MIDI number and back.
pitchVars == <<pitchPc, pitchName, pitchMidi, pitchBack>>

\* A call of one pure function: its arguments and its result.
callVars == <<callPc, callArgs, callResult>>

\* The radio server and its clients.
serverVars == <<radioState, generation, clients, chatMessages, feedback>>

radioVars == <<nextPattern, player, journey, serverVars>>

\* What generateSegment and the session store never touch.
detachedVars == <<pitchVars, callVars, radioVars>>

vars == <<genVars, storeVars, detachedVars>>

\* null or undefined where an object is expected.
Null == [ null |-> TRUE ]

\* null where a string is expected.
NullString == <<"null">>

\* How many generateSegment calls one behaviour chains.
MaxSegments == 2

\* The bar counts the callers pass run from 0 to MaxBars.
MaxBars == 3

\* The default of options.bars.
DefaultBars == 16

StyleChoices == {"ambient", "lofi", "electronic", "classical", "jazz", "blues", "polka"}

\* Key and mode as the callers pass them: a key of NOTES, a key generateSegment
\* does not know (a flat), the major mode and a five-note mode.
KeyModeChoices == { << <<"C">>, "major" >>, << <<"C">>, "pentatonic" >>,
                    << <<"B", "b">>, "major" >> }

\* totalBarsOffset and extensionDirection as the callers pass them; the
\* direction is read only when the offset is positive.
OffsetDirectionChoices == { <<0, "continue">>, <<32, "peak">> }

Options(b, km, s, od) ==
  [ bars |-> b, key |-> km[1], mode |-> km[2], style |-> s,
    totalBarsOffset |-> od[1], extensionDirection |-> od[2] ]

\* The styles under which the calls vary key, mode, offset and direction.
VariedStyles == {"ambient", "jazz"}

\* The options of the calls of Spec: in every style, short segments and
\* segments of the default length under the default key, mode and offset; in
\* the varied styles, short segments under every key, mode, offset and
\* direction of the choices above.
OptionChoices ==
  { Options(b, << <<"C">>, "major" >>, s, <<0, "continue">>) :
      b \in (0..MaxBars) \cup {DefaultBars}, s \in StyleChoices }
  \cup
  { Options(b, km, s, od) : b \in 0..MaxBars, km \in KeyModeChoices,
                            s \in VariedStyles, od \in OffsetDirectionChoices }

\* The options of the calls of SpecDynamics: segments of the default length
\* and short ones.
DynamicsOptionChoices ==
  { Options(b, << <<"C">>, "major" >>, "ambient", od) :
      b \in (0..MaxBars) \cup {DefaultBars}, od \in OffsetDirectionChoices }

InitialDynamics == [ level |-> "medium", direction |-> "stable", velocityTrend |-> 0 ]

NoNotes == [ melody |-> <<>>, bass |-> <<>>, chords |-> <<>> ]

(***************************************************************************)
(* The session store (feedback-manager.ts, session state management)       *)
(***************************************************************************)

\* createInitialState(params); key, mode, tempo and style are stored and
\* never read by generateSegment, and are left out.
createInitialState ==
  [ progressionPosition |-> 0, currentChord |-> NullString, currentChordType |-> "null",
    lastNotes |-> NoNotes, dynamics |-> InitialDynamics, totalBars |-> 0 ]

\* The session state after updateSessionWithSegment(sessionId, _, segmentInfo).
updateSessionWithSegment(state, segmentInfo) ==
  [ state EXCEPT
      !.totalBars = @ + segmentInfo.bars,
      !.currentChord = segmentInfo.endingChord,
      !.currentChordType = segmentInfo.endingChordType,
      !.progressionPosition = segmentInfo.progressionPosition,
      !.lastNotes = segmentInfo.endingNotes,
      !.dynamics = segmentInfo.dynamics ]

\* getContinuationContext(sessionId)
getContinuationContext(state) ==
  IF state = Null \/ state.totalBars = 0 THEN Null
  ELSE [ progressionPosition |-> state.progressionPosition,
         currentChord |-> state.currentChord,
         currentChordType |-> state.currentChordType,
         lastNotes |-> state.lastNotes,
         dynamics |-> state.dynamics,
         totalBars |-> state.totalBars,
         motif |-> Null ]

\* The ContinuationContext a caller populates from a SegmentInfo, field by
\* field (the shape of the interface; the motif is the optional field).
ContextFromInfo(segmentInfo) ==
  [ progressionPosition |-> segmentInfo.progressionPosition,
    currentChord |-> segmentInfo.endingChord,
    currentChordType |-> segmentInfo.endingChordType,
    lastNotes |-> segmentInfo.endingNotes,
    dynamics |-> segmentInfo.dynamics,
    totalBars |-> segmentInfo.bars,
    motif |-> segmentInfo.motif ]

\* createSession(projectName, params), before the first segment of the session.
CreateSession ==
  /\ pc = "idle" /\ session = Null /\ calls = 0
  /\ session' = createInitialState
  /\ stored' = stored
  /\ UNCHANGED genVars
  /\ UNCHANGED detachedVars

\* updateSessionWithSegment with the SegmentInfo just returned.
UpdateSession ==
  /\ pc = "idle" /\ session # Null /\ info # Null /\ ~stored
  /\ session' = updateSessionWithSegment(session, info)
  /\ stored' = TRUE
  /\ UNCHANGED genVars
  /\ UNCHANGED detachedVars

(***************************************************************************)
(* generateSegment (generator.ts)                                          *)
(***************************************************************************)

\* The contexts a caller passes.  The session layer passes the context its
\* store returns, after it has stored the SegmentInfo of its previous call; a
\* caller without a session passes none, or one populated from the last
\* SegmentInfo.
ContextChoices ==
  IF session # Null
  THEN IF info # Null /\ ~stored THEN {} ELSE {getContinuationContext(session)}
  ELSE {Null} \cup (IF info # Null THEN {ContextFromInfo(info)} ELSE {})

\* A variant of StartPosition that ignores the context.
StartPositionZero(ctx) == 0

\* continuationContext?.progressionPosition || 0
StartPosition(ctx) == IF ctx = Null THEN 0 ELSE ctx.progressionPosition

\* continuationContext?.dynamics || { medium, stable, 0 }
StartDynamics(ctx) == IF ctx = Null THEN InitialDynamics ELSE ctx.dynamics

\* continuationContext?.lastNotes?.melody?.[0]?.note || scale[motif[0]]
StartMelodyNote(ctx, scale, motifNotes) ==
  IF ctx # Null /\ ctx.lastNotes.melody # <<>>
  THEN ctx.lastNotes.melody[1].note
  ELSE At(scale, motifNotes[1])

\* continuationContext?.motif is present: the call continues that motif.
HasMotif(ctx) == ctx # Null /\ ctx.motif # Null

\* The prologue of generateSegment: options, tables and initial state.
CallGenerate(opts, ctx) ==
  /\ pc = "idle" /\ calls < MaxSegments
  /\ pc' = "loop"
  /\ calls' = calls + 1
  /\ options' = opts
  /\ context' = ctx /\ given' = ctx
  /\ progressionPos' = StartPosition(ctx)
  /\ dynamics' = StartDynamics(ctx)
  /\ dynamicsRef' = IF ctx = Null THEN "local" ELSE "context"
  /\ IF HasMotif(ctx)
       THEN motif' = ctx.motif /\ motifCount' = motifCount
       ELSE /\ motifCount' = motifCount + 1
            /\ \E notes \in generateMotif(Len(getScale(opts.key, opts.mode, 4))) :
                 motif' = [ id |-> motifCount + 1, notes |-> notes ]
  /\ lastMelodyNote' = StartMelodyNote(ctx, getScale(opts.key, opts.mode, 4), motif'.notes)
  /\ mel' = Null
  /\ motifVariation' = 0
  /\ endingNotes' = NoNotes
  /\ bar' = 0
  /\ lastBar' = Null
  /\ threw' = FALSE
  /\ UNCHANGED <<info, infoStyle>>
  /\ UNCHANGED storeVars
  /\ UNCHANGED detachedVars

\* The chord entry the bar loop reads: progression[progressionPos % length].
ChordIndex(progression, pos) == pos % Len(progression)

\* A variant of AdvancePosition that advances on the first bar of every group
\* of rate bars instead of the last one.
AdvancePositionEarly(pos, b, style) ==
  IF b % getProgressionRate(style) = 0
  THEN (pos + 1) % Len(getProgression(style)) ELSE pos

\* The progression position after a bar: advanced when (bar + 1) is a
\* multiple of the style's rate.
AdvancePosition(pos, b, style) ==
  IF (b + 1) % getProgressionRate(style) = 0
  THEN (pos + 1) % Len(getProgression(style)) ELSE pos

\* baseVelocity of a bar: getBaseVelocity(...) + sectionConfig.velocityMod.
BaseVelocity(dyn, b, bars, section) ==
  getBaseVelocity(dyn, b, bars) + SECTION_CONFIGS[section].velocityMod * 100

\* isLastBarOfSection of a bar, as the bar loop computes it.
IsLastBarOfSection(b, bars, section) == getSongSection(b + 1, bars, 0, "continue") # section

\* approachNote of generateBass: NOTES[(nextRootIdx + 11) % 12] + octave, where
\* nextRootIdx is NOTES.indexOf(rootNote), the index of the bar's own root.
ApproachNote(bassRoot) ==
  PlusNum(At(NOTES, JsRem(IndexOf(NOTES, StripDigits(bassRoot)) + 11, 12)), 2)

\* walkingNotes of generateBass, the four bass notes of a jazz bar.
WalkingNotes(bassRoot, chordNotes, section) ==
  LET tone(n) == IF IsString(n) THEN StripDigits(n) \o <<"2">> ELSE NaN
      root == StripDigits(bassRoot) \o <<"2">>
      third == tone(At(chordNotes, 1))
      fifth == tone(At(chordNotes, 2))
  IN IF section = "climax"
     THEN <<root, third, fifth, ApproachNote(bassRoot)>>
     ELSE <<root, fifth, root, ApproachNote(bassRoot)>>

\* generateMelody dereferences scale entries: whether the call can throw and
\* whether it can return, for the scale and the phrase targets of the bar.
MelodyOutcomes(scale, b) ==
  LET targets == IF b % 4 < 2 THEN {4, 1} ELSE {0, 2}
      bad == { i \in 1..Len(scale) : ~IsString(scale[i]) }
  IN (IF bad # {} THEN {"throws"} ELSE {})
       \cup (IF \E t \in targets : ((t % Len(scale)) + 1) \notin bad
             THEN {"returns"} ELSE {})

\* The call ends with a TypeError: its locals are gone, nothing is returned.
Throw ==
  /\ pc' = "idle" /\ threw' = TRUE
  /\ bar' = 0 /\ progressionPos' = 0 /\ dynamics' = InitialDynamics
  /\ motif' = Null /\ motifVariation' = 0 /\ endingNotes' = NoNotes
  /\ lastMelodyNote' = Undefined /\ mel' = Null
  /\ lastBar' = Null
  /\ dynamicsRef' = "local"
  /\ UNCHANGED <<options, context, given, info, infoStyle, motifCount, calls>>
  /\ UNCHANGED storeVars
  /\ UNCHANGED detachedVars

\* A variant of Spread that copies nothing: the result is the object itself.
NoSpread(ref) == ref

\* { ...dynamics } and [...motif]: the result is an object of the call's own.
Spread(ref) == "local"

\* The context object after a bar.  evolveDynamics assigns the fields of its
\* newDynamics, and varyMotif reverses an array in place for the variation 2:
\* the context's own dynamics and motif change when those are the objects
\* written.
ContextAfterBar(dyn, melody) ==
  IF context = Null THEN context
  ELSE [ context EXCEPT
           !.dynamics = IF Spread(dynamicsRef) = "context" THEN dyn ELSE @,
           !.motif = IF /\ melody /\ motifVariation % 4 = 2
                        /\ @ # Null /\ @.id = motif.id
                        /\ Spread("context") = "context"
                     THEN [ id |-> @.id, notes |-> varyMotif(@.notes, 2, Len(@.notes)) ]
                     ELSE @ ]

\* One iteration of the bar loop, for the drift evolveDynamics draws and the
\* note generateMelody returns when the section has a melody.
BarStep(drift, melodyNote) ==
  /\ pc = "loop" /\ bar < options.bars
  /\ LET progression == getProgression(options.style)
         idx == ChordIndex(progression, progressionPos)
         chord == progression[idx + 1]
         chordNotes == getChordFromDegree(options.key, options.mode, chord[1], chord[2], 3)
         section == getSongSection(bar, options.bars, options.totalBarsOffset,
                                   options.extensionDirection)
         config == SECTION_CONFIGS[section]
         baseVelocity == BaseVelocity(dynamics, bar, options.bars, section)
         scale == getScale(options.key, options.mode, 4)
     IN IF ~IsString(chordNotes[1])
        THEN Throw  \* chordNotes[0].replace is not a function
        ELSE \E outcome \in IF config.melody THEN MelodyOutcomes(scale, bar)
                            ELSE {"returns"} :
             IF outcome = "throws"
             THEN Throw
             ELSE
               LET bassRoot == StripDigits(chordNotes[1]) \o <<"2">>
               IN /\ lastBar' = [ bar |-> bar, chordIndex |-> idx, chord |-> chord,
                                  section |-> section, baseVelocity |-> baseVelocity,
                                  melody |-> config.melody,
                                  drums |-> IF config.drums # "none"
                                            THEN DrumPatternFor(options.style)
                                            ELSE Null,
                                  fill |-> config.drums # "none"
                                           /\ IsLastBarOfSection(bar, options.bars, section),
                                  rate |-> getProgressionRate(options.style),
                                  walking |-> IF /\ config.bass /\ options.style = "jazz"
                                                 /\ section \notin {"intro", "outro"}
                                              THEN WalkingNotes(bassRoot, chordNotes, section)
                                              ELSE <<>> ]
                  /\ lastMelodyNote' = IF config.melody THEN melodyNote ELSE lastMelodyNote
                  /\ mel' = Null
                  /\ endingNotes' =
                       IF bar >= options.bars - 2
                       THEN [ melody |-> Append(endingNotes.melody,
                                       [ note |-> lastMelodyNote', velocity |-> baseVelocity ]),
                              bass |-> Append(endingNotes.bass,
                                       [ note |-> bassRoot, velocity |-> baseVelocity ]),
                              chords |-> Append(endingNotes.chords,
                                       [ notes |-> chordNotes, velocity |-> baseVelocity ]) ]
                       ELSE endingNotes
                  /\ progressionPos' = AdvancePosition(progressionPos, bar, options.style)
                  /\ motifVariation' =
                       IF (bar + 1) % getProgressionRate(options.style) = 0
                       THEN motifVariation + 1 ELSE motifVariation
                  /\ dynamics' = evolveDynamics(dynamics, bar, options.bars, drift)
                  /\ dynamicsRef' = Spread(dynamicsRef)
                  /\ context' = ContextAfterBar(dynamics', config.melody)
                  /\ bar' = bar + 1
                  /\ pc' = "loop" /\ threw' = FALSE
                  /\ UNCHANGED <<options, given, motif, info, infoStyle,
                                 motifCount, calls>>
                  /\ UNCHANGED storeVars
  /\ UNCHANGED detachedVars

\* A bar in which generateMelody, if it is called, selects no note position
\* and returns the note it was given.
GenerateBar(drift) == mel = Null /\ BarStep(drift, lastMelodyNote)

(***************************************************************************)
(* generateMelody, one note at a time (generator.ts)                       *)
(***************************************************************************)

\* getPhraseType(barNumber).type
PhraseType(b) == IF b % 4 < 2 THEN "question" ELSE "answer"

\* The values getPhraseType draws for targetResolution.
PhraseTargets(b) == IF PhraseType(b) = "question" THEN {4, 1} ELSE {0, 2}

\* isEndOfPhrase of generateMelody
IsEndOfPhrase(b) == (b + 1) % 2 = 0

StrongBeats == {0, 8}

\* The positions notePositions can hold: allPositions, without the 14 that
\* is popped at the end of an answer phrase.
NotePositions(b) ==
  {0, 2, 4, 6, 8, 10, 12, 14}
    \ (IF PhraseType(b) = "answer" /\ IsEndOfPhrase(b) THEN {14} ELSE {})

\* scale.findIndex(s => s.replace(/\d+$/, '') === name)
FindName(scale, name) ==
  IF \E i \in 1..Len(scale) : StripDigits(scale[i]) = name
  THEN (CHOOSE i \in 1..Len(scale) :
          /\ StripDigits(scale[i]) = name
          /\ \A j \in 1..(i - 1) : StripDigits(scale[j]) # name) - 1
  ELSE -1

\* The target of a note and the motif index after it, for every outcome of
\* the random draws of the branch taken: the phrase target, a chord tone, the
\* next motif degree, or a step from the current note.
TargetChoices(scale, chordNotes, motifNotes, motifIdx, currentNote, isLastNoteOfPhrase, isStrongBeat, laterStrong, phraseTargets) ==
  LET len == Len(scale)
      degreeMidi(d) == noteToMidi(scale[(d % len) + 1])
      currentMidi == noteToMidi(currentNote)
  IN IF isLastNoteOfPhrase
     THEN { [ targetMidi |-> degreeMidi(t), motifIdx |-> motifIdx ] : t \in phraseTargets }
     ELSE IF isStrongBeat
     THEN { LET found == FindName(scale, StripDigits(chordNotes[k]))
                fromMotif == found = -1 /\ motifIdx < Len(motifNotes)
                degree == IF found # -1 THEN found
                          ELSE IF fromMotif THEN motifNotes[motifIdx + 1] ELSE 0
            IN [ targetMidi |-> degreeMidi(degree),
                 motifIdx |-> IF fromMotif THEN motifIdx + 1 ELSE motifIdx ]
            : k \in 1..Len(chordNotes) }
     ELSE (IF motifIdx < Len(motifNotes)
           THEN { [ targetMidi |-> degreeMidi(motifNotes[motifIdx + 1]),
                    motifIdx |-> motifIdx + 1 ] }
           ELSE {})
          \cup
          { [ targetMidi |-> currentMidi + step, motifIdx |-> motifIdx ]
            : step \in IF laterStrong
                       THEN { IF noteToMidi(chordNotes[1]) > currentMidi THEN 1 ELSE -1 }
                       ELSE {-2, -1, 1, 2} }

\* while (midi < low) midi += 12
RECURSIVE RaiseOctaves(_, _)
RaiseOctaves(midi, low) == IF midi < low THEN RaiseOctaves(midi + 12, low) ELSE midi

\* while (midi > high) midi -= 12
RECURSIVE LowerOctaves(_, _)
LowerOctaves(midi, high) == IF midi > high THEN LowerOctaves(midi - 12, high) ELSE midi

\* The lowest and the highest MIDI number of an octaveRange.
RangeLow(octaveRange) == (octaveRange[1] + 1) * 12

RangeHigh(octaveRange) == (octaveRange[2] + 1) * 12 + 11

\* maxInterval of generateMelody
MaxInterval(style) == IF style = "jazz" THEN 9 ELSE IF style = "classical" THEN 8 ELSE 6

\* The MIDI numbers a note can get from its target: the octave adjustment,
\* then, when the note is further than maxInterval from the previous one,
\* either that note or a step of 2 or 3 from the previous one towards it.
AdjustChoices(targetMidi, prevMidi, octaveRange, style) ==
  LET midi == LowerOctaves(RaiseOctaves(targetMidi, RangeLow(octaveRange)),
                           RangeHigh(octaveRange))
      far == (IF midi > prevMidi THEN midi - prevMidi ELSE prevMidi - midi)
               > MaxInterval(style)
      direction == IF midi > prevMidi THEN 1 ELSE -1
  IN IF far THEN {midi, prevMidi + direction * 3, prevMidi + direction * 2}
     ELSE {midi}

\* chordNotes of the bar about to be generated.
BarChordNotes ==
  LET progression == getProgression(options.style)
      chord == progression[ChordIndex(progression, progressionPos) + 1]
  IN getChordFromDegree(options.key, options.mode, chord[1], chord[2], 3)

\* The section configuration of the bar about to be generated.
BarConfig ==
  SECTION_CONFIGS[getSongSection(bar, options.bars, options.totalBarsOffset,
                                 options.extensionDirection)]

\* generateMelody is called for the bar, with the phrase getPhraseType drew
\* for it, and selects at least one position; has8 tells whether position 8,
\* the second strong beat, is among them.
EnterMelody(has8) ==
  /\ pc = "loop" /\ bar < options.bars /\ mel = Null
  /\ IsString(BarChordNotes[1])
  /\ \A i \in 1..Len(getScale(options.key, options.mode, 4)) :
        IsString(getScale(options.key, options.mode, 4)[i])
  /\ BarConfig.melody
  /\ \E t \in PhraseTargets(bar) :
       mel' = [ pos |-> -1, has8 |-> has8, motifIdx |-> 0, note |-> lastMelodyNote,
                midi |-> 0, done |-> FALSE, targetResolution |-> t ]
  /\ UNCHANGED <<pc, options, context, bar, progressionPos, dynamics, motif,
                 motifVariation, lastMelodyNote, endingNotes, lastBar, info,
                 infoStyle, threw, motifCount, calls, dynamicsRef, given>>
  /\ UNCHANGED storeVars
  /\ UNCHANGED detachedVars

\* One iteration of notePositions.forEach: the note at position p, which is
\* the last selected position when last holds.
MelodyNote(p, last) ==
  /\ pc = "loop" /\ mel # Null /\ ~mel.done
  /\ p \in NotePositions(bar) /\ p > mel.pos
  /\ (mel.has8 /\ mel.pos < 8) => p <= 8
  /\ p = 8 => mel.has8
  /\ last => (mel.has8 => p >= 8)
  /\ ~last => \E q \in NotePositions(bar) : q > p /\ (q = 8 => mel.has8)
  /\ LET scale == getScale(options.key, options.mode, 4)
         currentMotif == varyMotif(motif.notes, motifVariation, Len(scale))
         styleParams == StyleParamsFor(options.style)
     IN \E target \in TargetChoices(scale, BarChordNotes, currentMotif, mel.motifIdx,
                                     mel.note, last /\ IsEndOfPhrase(bar),
                                     p \in StrongBeats, mel.has8 /\ p < 8,
                                     {mel.targetResolution}) :
          \E midi \in AdjustChoices(target.targetMidi, noteToMidi(mel.note),
                                     styleParams.octaveRange, options.style) :
            mel' = [ pos |-> p, has8 |-> mel.has8, motifIdx |-> target.motifIdx,
                     note |-> midiToNote(midi), midi |-> midi, done |-> last,
                     targetResolution |-> mel.targetResolution ]
  /\ UNCHANGED <<pc, options, context, bar, progressionPos, dynamics, motif,
                 motifVariation, lastMelodyNote, endingNotes, lastBar, info,
                 infoStyle, threw, motifCount, calls, dynamicsRef, given>>
  /\ UNCHANGED storeVars
  /\ UNCHANGED detachedVars

\* generateMelody returns its last note and the bar is completed.
FinishMelodyBar(drift) == mel # Null /\ mel.done /\ BarStep(drift, mel.note)

\* The entry of the progression that generateSegment reports as the ending
\* chord: the one before the final position.
FinalChord(progression, pos) ==
  progression[((pos - 1 + Len(progression)) % Len(progression)) + 1]

\* The SegmentInfo generateSegment returns from its final state.
SegmentInfoOf(bars, notes, chordRoot, chordType, pos, dyn, m) ==
  [ bars |-> bars, endingNotes |-> notes, endingChord |-> chordRoot,
    endingChordType |-> chordType, progressionPosition |-> pos,
    dynamics |-> dyn, motif |-> m ]

\* The epilogue of generateSegment.
Return ==
  /\ pc = "loop" /\ bar >= options.bars
  /\ LET progression == getProgression(options.style)
         finalChord == FinalChord(progression, progressionPos)
         finalChordNotes == getChordFromDegree(options.key, options.mode,
                                               finalChord[1], finalChord[2], 3)
     IN IF ~IsString(finalChordNotes[1])
        THEN Throw
        ELSE /\ threw' = FALSE
             /\ info' = SegmentInfoOf(options.bars, endingNotes,
                                      StripDigits(finalChordNotes[1]), finalChord[2],
                                      progressionPos, dynamics, motif)
             /\ infoStyle' = options.style
             /\ stored' = FALSE
             /\ pc' = "idle"
             /\ bar' = 0 /\ progressionPos' = 0 /\ dynamics' = InitialDynamics
             /\ motif' = Null /\ motifVariation' = 0 /\ endingNotes' = NoNotes
             /\ lastMelodyNote' = Undefined /\ mel' = Null
             /\ lastBar' = Null
             /\ dynamicsRef' = "local"
             /\ UNCHANGED <<options, context, given, motifCount, calls>>
             /\ session' = session
             /\ UNCHANGED detachedVars

(***************************************************************************)
(* noteToMidi and midiToNote applied in turn to one pitch name             *)
(***************************************************************************)

\* The longest octave numeral of the pitch names converted.
MaxOctaveDigits == 2

\* The octave numerals: every digit string of up to MaxOctaveDigits digits
\* over a digit set that holds a zero, a small and a large digit.
OctaveDigits == {"0", "1", "2", "4", "9"}

OctaveNumerals ==
  UNION { [1..n -> OctaveDigits] : n \in 1..MaxOctaveDigits }

\* The pitch names converted: a letter, no accidental or a sharp or a flat,
\* and an octave numeral.
PitchChoices ==
  { <<l>> \o a \o o : l \in Letters, a \in {<<>>, <<"#">>, <<"b">>}, o \in OctaveNumerals }

\* noteToMidi(pitchName)
NoteToMidi ==
  /\ pitchPc = "name"
  /\ pitchMidi' = noteToMidi(pitchName)
  /\ pitchPc' = "midi"
  /\ UNCHANGED <<pitchName, pitchBack>>
  /\ UNCHANGED <<genVars, storeVars, callVars, radioVars>>

\* midiToNote of the number noteToMidi returned
MidiToNote ==
  /\ pitchPc = "midi"
  /\ pitchBack' = midiToNote(pitchMidi)
  /\ pitchPc' = "back"
  /\ UNCHANGED <<pitchName, pitchMidi>>
  /\ UNCHANGED <<genVars, storeVars, callVars, radioVars>>

(***************************************************************************)
(* The specifications                                                      *)
(***************************************************************************)

\* No conversion is under way.
NoPitch == pitchPc = "none" /\ pitchName = <<>> /\ pitchMidi = 0 /\ pitchBack = <<>>

InitGenerator ==
  /\ pc = "idle"
  /\ options = Null /\ context = Null
  /\ bar = 0 /\ progressionPos = 0
  /\ dynamics = InitialDynamics
  /\ motif = Null /\ motifVariation = 0
  /\ lastMelodyNote = Undefined /\ mel = Null
  /\ endingNotes = NoNotes
  /\ lastBar = Null
  /\ info = Null /\ infoStyle = "null"
  /\ threw = FALSE
  /\ motifCount = 0 /\ calls = 0
  /\ dynamicsRef = "local" /\ given = Null
  /\ session = Null /\ stored = FALSE

\* No call of a pure function is under way.
NoCall == callPc = "none" /\ callArgs = Null /\ callResult = Null

\* No radio server is running.
NoServer ==
  /\ radioState = Null /\ generation = Null /\ clients = Null
  /\ chatMessages = Null /\ feedback = Null

NoRadio == nextPattern = Null /\ player = Null /\ journey = Null /\ NoServer

Init == InitGenerator /\ NoRadio /\ NoPitch /\ NoCall

StoreNext == CreateSession \/ UpdateSession

\* Harmony, structure and the session store: chains of calls under every
\* style, with the drift of evolveDynamics at the middle of its interval and
\* with generateMelody selecting no position.
Next ==
  \/ \E opts \in OptionChoices : \E ctx \in ContextChoices : CallGenerate(opts, ctx)
  \/ \E drift \in MidDrift : GenerateBar(drift)
  \/ Return
  \/ StoreNext

Spec == Init /\ [][Next]_vars

\* Dynamics: chains of 'ambient' segments, the default length included, with
\* the drift of evolveDynamics at either end of its interval.
NextDynamics ==
  \/ \E opts \in DynamicsOptionChoices : \E ctx \in ContextChoices : CallGenerate(opts, ctx)
  \/ \E drift \in DriftChoices : GenerateBar(drift)
  \/ Return
  \/ StoreNext

SpecDynamics == Init /\ [][NextDynamics]_vars

\* The longest segment of SpecMelody, in bars.
MaxMelodyBars == 1

\* The options of the calls of SpecMelody: a segment in 'electronic', the
\* style with the widest octave range, when the call has no context, and its
\* continuation in 'ambient', a style with a narrower one; the key of B, whose
\* scale lies highest.
MelodyOptionChoices(ctx) ==
  { Options(b, << <<"B">>, "major" >>, IF ctx = Null THEN "electronic" ELSE "ambient", od) :
      b \in 0..MaxMelodyBars, od \in OffsetDirectionChoices }

\* Melody: generateMelody note by note, in a segment and its continuation.
NextMelody ==
  \/ \E ctx \in ContextChoices : \E opts \in MelodyOptionChoices(ctx) :
       CallGenerate(opts, ctx)
  \/ \E drift \in MidDrift : GenerateBar(drift)
  \/ \E has8 \in BOOLEAN : EnterMelody(has8)
  \/ \E p \in {0, 2, 4, 6, 8, 10, 12, 14} : \E last \in BOOLEAN : MelodyNote(p, last)
  \/ \E drift \in MidDrift : FinishMelodyBar(drift)
  \/ Return

SpecMelody == Init /\ [][NextMelody]_vars

\* The options of the calls of SpecPhrase: first a two-bar segment that
\* continues a piece towards its peak, so that both bars have a melody, in
\* every style, then a one-bar continuation of it.
PhraseOptionChoices(ctx) ==
  IF ctx = Null
  THEN IF calls = 0
       THEN { Options(2, << <<"C">>, "major" >>, s, <<32, "peak">>) : s \in StyleChoices }
       ELSE {}
  ELSE { Options(1, << <<"C">>, "major" >>, "ambient", <<32, "peak">>) }

\* generateMelody selects at least one position in the closing bar of a phrase.
EnterClosingBar(has8) == IsEndOfPhrase(bar) /\ EnterMelody(has8)

\* Phrases: a segment of one phrase whose closing bar is generated note by
\* note, and its continuation.
NextPhrase ==
  \/ \E ctx \in ContextChoices : \E opts \in PhraseOptionChoices(ctx) :
       CallGenerate(opts, ctx)
  \/ \E drift \in MidDrift : GenerateBar(drift)
  \/ \E has8 \in BOOLEAN : EnterClosingBar(has8)
  \/ \E p \in {0, 2, 4, 6, 8, 10, 12, 14} : \E last \in BOOLEAN : MelodyNote(p, last)
  \/ \E drift \in MidDrift : FinishMelodyBar(drift)
  \/ Return

SpecPhrase == Init /\ [][NextPhrase]_vars

\* The conversions of every pitch name of PitchChoices.
InitPitch ==
  /\ InitGenerator /\ NoRadio
  /\ pitchPc = "name" /\ pitchName \in PitchChoices
  /\ pitchMidi = 0 /\ pitchBack = <<>>
  /\ NoCall

NextPitch == NoteToMidi \/ MidiToNote

SpecPitch == InitPitch /\ [][NextPitch]_vars

\* The longest segment getSongSection is asked about, in bars.
MaxSectionBars == 20

\* The arguments of getSongSection: every bar of every segment of up to
\* MaxSectionBars bars, first segments and extensions in every direction.
SectionArgChoices ==
  { [ barNumber |-> b, totalBars |-> n, totalBarsOffset |-> o, extensionDirection |-> d ] :
      b \in 0..(MaxSectionBars - 1), n \in 1..MaxSectionBars, o \in {0, 32},
      d \in {"continue", "build", "peak", "wind_down", "contrast"} }

\* getSongSection(barNumber, totalBars, totalBarsOffset, extensionDirection)
\* for a bar of the segment.
GetSongSection ==
  /\ callPc = "args" /\ callArgs.barNumber < callArgs.totalBars
  /\ callResult' = getSongSection(callArgs.barNumber, callArgs.totalBars,
                                  callArgs.totalBarsOffset, callArgs.extensionDirection)
  /\ callPc' = "done"
  /\ UNCHANGED callArgs
  /\ UNCHANGED <<genVars, storeVars, pitchVars, radioVars>>

InitSection ==
  /\ InitGenerator /\ NoRadio /\ NoPitch
  /\ callPc = "args" /\ callArgs \in SectionArgChoices /\ callResult = Null

NextSection == GetSongSection

SpecSection == InitSection /\ [][NextSection]_vars

\* The weighted candidates getNextMelodicNote builds: the notes within an
\* octave of the current one whose pitch class is in the scale, in ascending
\* order, each with its selection weight.
WeightedCandidates(currentNote, scale, chord, direction, leap) ==
  LET currentMidi == noteToMidi(currentNote)
      inScale(midi) == \E i \in 1..Len(scale) : JsRem(midi, 12) = JsRem(noteToMidi(scale[i]), 12)
      inChord(midi) == \E i \in 1..Len(chord) : JsRem(midi, 12) = JsRem(noteToMidi(chord[i]), 12)
      weight(midi) ==
        LET interval == IF midi > currentMidi THEN midi - currentMidi ELSE currentMidi - midi
        IN 1 + (IF inChord(midi) THEN 2 ELSE 0)
             + (IF direction > 0 /\ midi > currentMidi THEN 1 ELSE 0)
             + (IF direction < 0 /\ midi < currentMidi THEN 1 ELSE 0)
             + (IF ~leap /\ interval <= 2 THEN 2 ELSE 0)
             + (IF leap /\ interval >= 3 /\ interval <= 7 THEN 2 ELSE 0)
      nearby == { m \in (currentMidi - 12)..(currentMidi + 12) : inScale(m) }
      RECURSIVE ascending(_)
      ascending(ms) ==
        IF ms = {} THEN <<>>
        ELSE LET m == CHOOSE x \in ms : \A y \in ms : x <= y
             IN <<[ midi |-> m, weight |-> weight(m) ]>> \o ascending(ms \ {m})
  IN ascending(nearby)

\* The sum of the weights of the candidates whose interval to the current
\* note lies in lo..hi: totalWeight for the interval 0..12.
RECURSIVE WeightWhere(_, _, _, _)
WeightWhere(weighted, currentMidi, lo, hi) ==
  IF weighted = <<>> THEN 0
  ELSE LET d == weighted[1].midi - currentMidi
       IN (IF (IF d < 0 THEN -d ELSE d) \in lo..hi THEN weighted[1].weight ELSE 0)
            + WeightWhere(Tail(weighted), currentMidi, lo, hi)

\* The roulette of getNextMelodicNote for a draw Math.random() * totalWeight
\* in (slot - 1, slot]: the first candidate at which the running sum reaches it.
RECURSIVE Roulette(_, _)
Roulette(weighted, slot) ==
  IF slot <= weighted[1].weight THEN weighted[1].midi
  ELSE Roulette(Tail(weighted), slot - weighted[1].weight)

\* The arguments of getNextMelodicNote: a current note of the fourth octave,
\* the C major scale, the C major chord, every direction, leap or not.
MelodicArgChoices ==
  { [ currentNote |-> <<n[1], "4">>, scale |-> getScale(<<"C">>, "major", 4),
      chord |-> getChord(<<"C">>, "major", 4), direction |-> d, leap |-> l ] :
      n \in { <<"C">>, <<"D">>, <<"E">>, <<"G">>, <<"B">> }, d \in {-1, 0, 1}, l \in BOOLEAN }

\* getNextMelodicNote up to the weighting of its candidates.
WeighCandidates ==
  /\ callPc = "args"
  /\ callResult' = WeightedCandidates(callArgs.currentNote, callArgs.scale, callArgs.chord,
                                      callArgs.direction, callArgs.leap)
  /\ callPc' = "weighted"
  /\ UNCHANGED callArgs
  /\ UNCHANGED <<genVars, storeVars, pitchVars, radioVars>>

\* The weighted random selection of getNextMelodicNote.
PickCandidate ==
  /\ callPc = "weighted"
  /\ \E slot \in 1..WeightWhere(callResult, noteToMidi(callArgs.currentNote), 0, 12) :
       callResult' = midiToNote(Roulette(callResult, slot))
  /\ callPc' = "done"
  /\ UNCHANGED callArgs
  /\ UNCHANGED <<genVars, storeVars, pitchVars, radioVars>>

InitMelodic ==
  /\ InitGenerator /\ NoRadio /\ NoPitch
  /\ callPc = "args" /\ callArgs \in MelodicArgChoices /\ callResult = Null

NextMelodic == WeighCandidates \/ PickCandidate

SpecMelodic == InitMelodic /\ [][NextMelodic]_vars

(***************************************************************************)
(* The note events of the five track generators.  Velocities are in        *)
(* hundredths, as baseVelocity is; ticks are whole.                         *)
(***************************************************************************)

\* The values of Math.floor((Math.random() - 0.5) * amount * 2) the
\* enumeration draws: both ends of its range.
Jitter(amount) == {-amount, amount - 1}

\* A variant of humanizeVelocity without the final clamp.
HumanizeVelocityUnclamped(velocity, amount, j) == velocity + j * 100

\* humanizeTiming(tick, amount) for the jitter j
humanizeTiming(tick, amount, j) == Max(0, tick + j)

\* humanizeVelocity(velocity, amount) for the jitter j
humanizeVelocity(velocity, amount, j) == Min(12700, Max(100, velocity + j * 100))

\* One NoteEvent of a track: raw = <<velocity, amount, tick, amount>> holds the
\* arguments of humanizeVelocity and of humanizeTiming; a timing amount of -1
\* stands for a startTick that is not humanized.
AddEvent(track, raw) ==
  /\ \E jv \in Jitter(raw[2]) : \E jt \in (IF raw[4] < 0 THEN {0} ELSE Jitter(raw[4])) :
       callResult' = [ track |-> track,
                       velocity |-> humanizeVelocity(raw[1], raw[2], jv),
                       startTick |-> IF raw[4] < 0 THEN raw[3]
                                     ELSE humanizeTiming(raw[3], raw[4], jt) ]
  /\ callPc' = "event"
  /\ UNCHANGED callArgs
  /\ UNCHANGED <<genVars, storeVars, pitchVars, radioVars>>

\* The section of the bar of callArgs, and the baseVelocity of line 358.
ArgSection ==
  getSongSection(callArgs.bar, callArgs.bars, callArgs.totalBarsOffset,
                 callArgs.extensionDirection)

ArgVelocity == BaseVelocity(callArgs.dynamics, callArgs.bar, callArgs.bars, ArgSection)

\* The bars for which events are generated: a style, a dynamics state and a
\* bar of a 16-bar first segment or the bar of a 1-bar peak extension.
EventArgChoices ==
  { [ style |-> st, dynamics |-> [ level |-> lv, direction |-> dr, velocityTrend |-> tr ],
      bar |-> bb[1], bars |-> bb[2], totalBarsOffset |-> bb[3], extensionDirection |-> bb[4] ] :
      st \in {"ambient", "lofi", "electronic", "classical", "jazz", "funk"},
      lv \in {"soft", "loud"}, dr \in {"building", "fading"}, tr \in {-100, 120},
      bb \in { <<0, 16, 0, "continue">>, <<4, 16, 0, "continue">>, <<8, 16, 0, "continue">>,
               <<11, 16, 0, "continue">>, <<15, 16, 0, "continue">>, <<0, 1, 32, "peak">> } }

\* generateDrums: one of the events it appends in the bar.
GenerateDrums ==
  /\ callPc = "args"
  /\ SECTION_CONFIGS[ArgSection].drums # "none"
  /\ LET intensity == SECTION_CONFIGS[ArgSection].drums
         addFill == IsLastBarOfSection(callArgs.bar, callArgs.bars, ArgSection)
         pattern == DrumPatternFor(callArgs.style)
         \* intensityMult, in thousandths
         im == [ minimal |-> 60, light |-> 80, full |-> 100, building |-> 115 ][intensity]
                 * (CASE callArgs.dynamics.direction = "building" -> 11
                      [] callArgs.dynamics.direction = "fading" -> 9
                      [] OTHER -> 10)
         bv == ArgVelocity
         tick(i) == callArgs.bar * 512 + i * 32
         fill(i) ==
           { <<FloorDiv(bv * im * (i - 4), 1000000) * 100, 5, tick(i), 2>> }
             \cup (IF i \in {13, 15}
                   THEN { <<FloorDiv(bv * im * 85, 10000000) * 100, 5, tick(i), 2>> } ELSE {})
         normal(i) ==
           (IF i \in pattern.kick /\ (intensity # "minimal" \/ i = 0)
            THEN { <<FloorDiv(bv * im, 100000) * 100, 5, tick(i), 2>> } ELSE {})
           \cup (IF i \in pattern.snare
                 THEN { <<FloorDiv(bv * 9 * im, 1000000) * 100, 6, tick(i), 3>> } ELSE {})
           \cup (IF callArgs.style \in {"lofi", "jazz"} /\ intensity # "minimal" /\ i \in {6, 10}
                 THEN { <<FloorDiv(bv * 35, 10000) * 100, 8, tick(i), 5>> } ELSE {})
           \cup (IF i \in pattern.hihat
                 THEN { <<FloorDiv((bv - 2000) * (IF i % 2 = 1 THEN 7 ELSE 10) * im, 1000000) * 100,
                          10, tick(i), 4>> } ELSE {})
           \cup (IF i \in pattern.ride
                 THEN { <<FloorDiv(bv * 6 * im, 1000000) * 100, 8, tick(i), 5>> } ELSE {})
     IN \E i \in 0..15 : \E raw \in (IF addFill /\ i >= 12 THEN fill(i) ELSE normal(i)) :
          AddEvent("drums", raw)

\* generatePad, called with baseVelocity * 1.1 in the climax and * 0.9 elsewhere.
GeneratePad ==
  /\ callPc = "args"
  /\ SECTION_CONFIGS[ArgSection].pad
  /\ callArgs.style \in {"ambient", "electronic"} \/ ArgSection \in {"intro", "outro"}
  /\ AddEvent("pad", <<FloorDiv(ArgVelocity * (IF ArgSection = "climax" THEN 11 ELSE 9) * 4, 10000) * 100,
                       5, callArgs.bar * 512, -1>>)

\* generateChords: one of the events it appends in the bar.
GenerateChords ==
  /\ callPc = "args"
  /\ SECTION_CONFIGS[ArgSection].chords
  /\ LET section == ArgSection
         style == callArgs.style
         bv == ArgVelocity
         tick == callArgs.bar * 512
         \* sectionSparsity, in tenths
         sp == CASE section = "intro" -> 5 [] section = "outro" -> 6
                 [] section = "climax" -> 12 [] OTHER -> 10
         noteCount == CASE section = "intro" -> 4 [] section = "climax" -> 16 [] OTHER -> 8
         hits == CASE section = "intro" -> {0, 8}
                   [] section = "climax" -> {0, 2, 4, 6, 8, 10, 12, 14}
                   [] OTHER -> {0, 3, 6, 10, 14}
         events ==
           CASE style = "ambient" ->
                  { <<FloorDiv(bv * 6 * sp, 10000) * 100, 8,
                      tick + i * (IF section = "intro" THEN 256 ELSE 128), 10>> :
                      i \in 0..((IF section = "climax" THEN 6 ELSE 4) - 1) }
             [] style = "electronic" ->
                  { <<FloorDiv(bv * 7 * sp, 10000) * 100, 10, tick + i * (512 \div noteCount), 3>> :
                      i \in 0..(noteCount - 1) }
             [] style \in {"lofi", "jazz"} ->
                  { <<FloorDiv(bv * 65 * sp, 100000) * 100, 12,
                      tick + pos * 32 + (IF style = "jazz" /\ pos % 2 = 1 THEN 8 ELSE 0), 8>> :
                      pos \in hits }
             [] OTHER ->
                  IF StyleParamsFor(style).useSustain \/ section \in {"intro", "outro"}
                  THEN { <<FloorDiv(bv * 7 * sp, 10000) * 100, 5, tick, -1>> }
                  ELSE { <<FloorDiv(bv * 65 * sp, 100000) * 100, 8, tick + beat * 128, 5>> :
                           beat \in 0..((IF section \in {"climax", "verse"} THEN 4 ELSE 2) - 1) }
     IN \E raw \in events : AddEvent("chords", raw)

\* generateBass: one of the events it appends in the bar.
GenerateBass ==
  /\ callPc = "args"
  /\ SECTION_CONFIGS[ArgSection].bass
  /\ LET section == ArgSection
         style == callArgs.style
         tick == callArgs.bar * 512
         bassVelocity == FloorDiv(ArgVelocity * 85, 10000) * 100
         noteCount == IF section = "climax" THEN 16 ELSE 8
         events ==
           IF section \in {"intro", "outro"} THEN { <<bassVelocity - 1000, 5, tick, -1>> }
           ELSE CASE style = "jazz" ->
                  { <<bassVelocity, 8, tick + i * 128 + (IF i \in {1, 3} THEN 12 ELSE 0), 10>> :
                      i \in 0..3 }
             [] style = "lofi" ->
                  { <<bassVelocity, 10, tick + pos * 32 + 5, 8>> :
                      pos \in (IF section = "climax" THEN {0, 2, 4, 6, 8, 10, 12, 14}
                               ELSE {0, 3, 6, 8, 11, 14}) }
             [] style = "electronic" ->
                  { <<bassVelocity + (IF section = "climax" THEN 1500 ELSE 1000), 5,
                      tick + i * (512 \div noteCount), 3>> : i \in 0..(noteCount - 1) }
             [] style = "classical" ->
                  { <<bassVelocity - 1000, 8, tick + i * 64, 5>> : i \in 0..7 }
             [] OTHER ->
                  IF section = "climax"
                  THEN { <<bassVelocity - 1000, 5, tick, -1>>, <<bassVelocity - 500, 5, tick + 256, -1>> }
                  ELSE { <<bassVelocity - 1500, 5, tick, -1>> }
     IN \E raw \in events : AddEvent("bass", raw)

\* generateMelody: the event of one of its notes, the i-th of the selected
\* positions with `after` positions selected behind it, a chord tone or not.
GenerateMelodyEvent ==
  /\ callPc = "args"
  /\ SECTION_CONFIGS[ArgSection].melody
  /\ LET style == callArgs.style
         positions == NotePositions(callArgs.bar)
     IN \E pos \in positions : \E isChordTone \in BOOLEAN :
        \E i \in 0..Cardinality({ q \in positions : q < pos }) :
        \E after \in 0..Cardinality({ q \in positions : q > pos }) :
        \E lazy \in {2, 7} :
          LET isDownbeat == pos \in {0, 8}
              \* Math.floor(phraseProgress * 8) and Math.floor(phraseProgress * 6)
              shape == IF PhraseType(callArgs.bar) = "question"
                       THEN FloorDiv(i * 8, Max(1, i + after))
                       ELSE -FloorDiv(i * 6, Max(1, i + after))
              timingOffset == IF style = "jazz" /\ ~isDownbeat THEN 8
                              ELSE IF style = "lofi" THEN lazy ELSE 0
          IN AddEvent("melody",
                      <<ArgVelocity + (IF isChordTone THEN 800 ELSE 0)
                          + (IF isDownbeat THEN 500 ELSE 0) + shape * 100,
                        10, callArgs.bar * 512 + pos * 32 + timingOffset,
                        IF style = "lofi" THEN 10 ELSE 6>>)

InitEvents ==
  /\ InitGenerator /\ NoRadio /\ NoPitch
  /\ callPc = "args" /\ callArgs \in EventArgChoices /\ callResult = Null

NextEvents ==
  GenerateDrums \/ GeneratePad \/ GenerateChords \/ GenerateBass \/ GenerateMelodyEvent

SpecEvents == InitEvents /\ [][NextEvents]_vars

(***************************************************************************)
(* durationSeconds, in IEEE 754 double arithmetic.  A double is a record   *)
(* [m, e]: m holds the 53 bits of its significand, the highest first and   *)
(* equal to 1, and its value is m * 2^e.                                    *)
(***************************************************************************)

\* The bits of a number given by its digits to the base 1024, the highest
\* first, without leading zeros.
Bits(limbs) ==
  LET all == [ i \in 1..(10 * Len(limbs)) |->
                 (limbs[((i - 1) \div 10) + 1] \div 2^(9 - ((i - 1) % 10))) % 2 ]
      first == CHOOSE f \in 1..Len(all) : all[f] = 1 /\ \A g \in 1..(f - 1) : all[g] = 0
  IN SubSeq(all, first, Len(all))

\* The digits to the base 1024 of a number given by its bits.
Limbs(bits) ==
  LET n == (Len(bits) + 9) \div 10
      bit(i) == IF i + Len(bits) > 10 * n THEN bits[i + Len(bits) - 10 * n] ELSE 0
  IN [ j \in 1..n |->
         512 * bit(10 * j - 9) + 256 * bit(10 * j - 8) + 128 * bit(10 * j - 7)
           + 64 * bit(10 * j - 6) + 32 * bit(10 * j - 5) + 16 * bit(10 * j - 4)
           + 8 * bit(10 * j - 3) + 4 * bit(10 * j - 2) + 2 * bit(10 * j - 1) + bit(10 * j) ]

\* The digits of limbs * k + carry.
RECURSIVE MulLimbs(_, _, _)
MulLimbs(limbs, k, carry) ==
  IF limbs = <<>> THEN <<carry>>
  ELSE LET v == limbs[Len(limbs)] * k + carry
       IN Append(MulLimbs(SubSeq(limbs, 1, Len(limbs) - 1), k, v \div 1024), v % 1024)

\* Long division: n further digits of the quotient by b after the remainder
\* r, and the remainder left.
RECURSIVE DivLimbs(_, _, _)
DivLimbs(r, b, n) ==
  IF n = 0 THEN [ limbs |-> <<>>, r |-> r ]
  ELSE LET rest == DivLimbs((r * 1024) % b, b, n - 1)
       IN [ limbs |-> <<(r * 1024) \div b>> \o rest.limbs, r |-> rest.r ]

\* The double nearest to bits * 2^e, ties to the even significand.
Round53(bits, e) ==
  LET L == Len(bits)
  IN IF L <= 53
     THEN [ m |-> bits \o [i \in 1..(53 - L) |-> 0], e |-> e - (53 - L) ]
     ELSE LET keep == SubSeq(bits, 1, 53)
              up == /\ bits[54] = 1
                    /\ \/ keep[53] = 1
                       \/ \E i \in 55..L : bits[i] = 1
              m == IF up THEN Bits(MulLimbs(Limbs(keep), 1, 1)) ELSE keep
          IN IF Len(m) = 54 THEN [ m |-> SubSeq(m, 1, 53), e |-> e + (L - 53) + 1 ]
             ELSE [ m |-> m, e |-> e + (L - 53) ]

\* a / b of two positive whole numbers, a below 2^20: 70 bits of the
\* fraction, followed by a bit that tells whether a remainder is left.
Fdiv(a, b) ==
  LET q == a \div b
      frac == DivLimbs(a % b, b, 7)
  IN Round53(Bits(<<q \div 1024, q % 1024>> \o frac.limbs)
               \o <<IF frac.r = 0 THEN 0 ELSE 1>>, -71)

\* x * k of a double and a positive whole number
Fmul(x, k) == Round53(Bits(MulLimbs(Limbs(x.m), k, 0)), x.e)

\* The lengths and tempos of the segments whose duration is computed.
DurationArgChoices ==
  { [ bars |-> b, tempo |-> t ] :
      b \in {1, 2, 4, 8, 16, 32, 64}, t \in {60, 70, 80, 90, 100, 110, 120, 130, 140} }

\* const durationSeconds = (bars * 4 / tempo) * 60;
DurationSeconds ==
  /\ callPc = "args"
  /\ callResult' = Fmul(Fdiv(callArgs.bars * 4, callArgs.tempo), 60)
  /\ callPc' = "done"
  /\ UNCHANGED callArgs
  /\ UNCHANGED <<genVars, storeVars, pitchVars, radioVars>>

InitDuration ==
  /\ InitGenerator /\ NoRadio /\ NoPitch
  /\ callPc = "args" /\ callArgs \in DurationArgChoices /\ callResult = Null

SpecDuration == InitDuration /\ [][DurationSeconds]_vars

(***************************************************************************)
(* index.ts: generateNextPattern and its two generators                    *)
(***************************************************************************)

\* How many patterns the generation loop asks for.
MaxPatterns == 3

\* The ultimate fallback pattern of generateNextPattern.
FallbackSegment ==
  [ id |-> "fallback", patternCode |-> "note(\"<c3 eb3 g3 bb3>/4\").s(\"sawtooth\").cutoff(800).room(0.8)",
    style |-> "ambient", energy |-> "medium" ]

\* What the model can answer: a pattern text, and an energy that may be
\* missing.
AnswerChoices ==
  { [ patternCode |-> c, style |-> "techno", energy |-> e ] :
      c \in {"note(\"c3 e3\")", "s(\"bd sd\")"}, e \in {"low", "high", ""} }

\* The Segment a generator builds from an answer.
SegmentOf(id, answer) ==
  [ id |-> id, patternCode |-> answer.patternCode, style |-> answer.style,
    energy |-> IF answer.energy = "" THEN "medium" ELSE answer.energy ]

\* A variant of Caught in which the error leaves the generator.
Uncaught(error) == [ throws |-> error ]

\* try { ... } catch (error) { console.error(...); return null; }
Caught(error) == Null

\* generateWithAgentSDK for what the query does: it fails, ends without a
\* result, answers without JSON or with malformed JSON, or answers.
generateWithAgentSDK(outcome) ==
  IF "error" \in DOMAIN outcome THEN Caught(outcome.error) ELSE SegmentOf("sdk", outcome)

\* generateWithDirectAPI for what the request does: it fails, answers without
\* the tool use, or answers.
generateWithDirectAPI(outcome) ==
  IF "error" \in DOMAIN outcome THEN Caught(outcome.error) ELSE SegmentOf("direct", outcome)

\* generateNextPattern is called and reaches its first await.
GenerateNextPattern ==
  /\ nextPattern.pc = "idle" /\ nextPattern.count < MaxPatterns
  /\ nextPattern' = [ nextPattern EXCEPT
                        !.pc = IF nextPattern.useAgentSDK THEN "sdk" ELSE "direct",
                        !.count = @ + 1, !.sdk = "none", !.direct = "none", !.result = Null ]
  /\ UNCHANGED <<genVars, storeVars, pitchVars, callVars, player, journey, serverVars>>

\* await generateWithAgentSDK() settles.
AgentSDKSettles ==
  /\ nextPattern.pc = "sdk"
  /\ \E outcome \in { [ error |-> e ] : e \in {"query failed", "No result from Agent SDK",
                                               "No JSON found in response",
                                               "JSON.parse failed"} } \cup AnswerChoices :
       LET result == generateWithAgentSDK(outcome)
       IN nextPattern' =
            IF result = Null
            THEN [ nextPattern EXCEPT !.pc = "direct", !.sdk = "null" ]
            ELSE IF "throws" \in DOMAIN result
            THEN [ nextPattern EXCEPT !.pc = "rejected", !.sdk = "throws" ]
            ELSE [ nextPattern EXCEPT !.pc = "resolved", !.sdk = "segment", !.result = result ]
  /\ UNCHANGED <<genVars, storeVars, pitchVars, callVars, player, journey, serverVars>>

\* await generateWithDirectAPI() settles.
DirectAPISettles ==
  /\ nextPattern.pc = "direct"
  /\ \E outcome \in { [ error |-> e ] : e \in {"request failed", "No pattern generated"} }
                     \cup AnswerChoices :
       LET result == generateWithDirectAPI(outcome)
       IN nextPattern' =
            IF result = Null
            THEN [ nextPattern EXCEPT !.pc = "resolved", !.direct = "null",
                                      !.result = FallbackSegment ]
            ELSE IF "throws" \in DOMAIN result
            THEN [ nextPattern EXCEPT !.pc = "rejected", !.direct = "throws" ]
            ELSE [ nextPattern EXCEPT !.pc = "resolved", !.direct = "segment", !.result = result ]
  /\ UNCHANGED <<genVars, storeVars, pitchVars, callVars, player, journey, serverVars>>

\* The generation loop takes the pattern, or the error, of the call.
Settled ==
  /\ nextPattern.pc \in {"resolved", "rejected"}
  /\ nextPattern' = [ nextPattern EXCEPT !.pc = "idle" ]
  /\ UNCHANGED <<genVars, storeVars, pitchVars, callVars, player, journey, serverVars>>

\* The server with or without CLAUDE_CODE_OAUTH_TOKEN.
InitPattern ==
  /\ InitGenerator /\ NoPitch /\ NoCall /\ player = Null /\ journey = Null /\ NoServer
  /\ \E enabled \in BOOLEAN :
       nextPattern = [ pc |-> "idle", useAgentSDK |-> enabled, count |-> 0,
                       sdk |-> "none", direct |-> "none", result |-> Null ]

NextGeneration == GenerateNextPattern \/ AgentSDKSettles \/ DirectAPISettles \/ Settled

SpecPattern == InitPattern /\ [][NextGeneration]_vars

(***************************************************************************)
(* The client's Strudel player: validatePattern and playPattern.  A        *)
(* pattern text is the sequence of its characters.                          *)
(***************************************************************************)

FALLBACK_PATTERN ==
  <<"n", "o", "t", "e", "(", "\"", "c", "3", " ", "e", "b", "3", " ", "g",
    "3", " ", "b", "b", "3", "\"", ")", ".", "s", "(", "\"", "s", "a", "w",
    "t", "o", "o", "t", "h", "\"", ")", ".", "c", "u", "t", "o", "f", "f",
    "(", "8", "0", "0", ")", ".", "r", "o", "o", "m", "(", "0", ".", "5",
    ")", ".", "s", "l", "o", "w", "(", "2", ")">>

validStarters ==
  { <<"n", "o", "t", "e">>,
    <<"n">>,
    <<"s">>,
    <<"s", "o", "u", "n", "d">>,
    <<"s", "t", "a", "c", "k">>,
    <<"s", "e", "q", "u", "e", "n", "c", "e">>,
    <<"c", "a", "t">>,
    <<"f", "a", "s", "t", "c", "a", "t">>,
    <<"s", "l", "o", "w", "c", "a", "t">>,
    <<"p", "o", "l", "y", "m", "e", "t", "e", "r">>,
    <<"p", "o", "l", "y", "r", "h", "y", "t", "h", "m">>,
    <<"s", "i", "l", "e", "n", "c", "e">>,
    <<"p", "u", "r", "e">>,
    <<"m", "i", "n", "i">>,
    <<"s", "e", "q">>,
    <<"c", "h", "o", "r", "d">> }

IsSpace(c) == c \in {" ", "\t", "\n"}

\* code.trim()
Trim(code) ==
  IF \A i \in 1..Len(code) : IsSpace(code[i]) THEN <<>>
  ELSE LET first == CHOOSE i \in 1..Len(code) :
                      ~IsSpace(code[i]) /\ \A j \in 1..(i - 1) : IsSpace(code[j])
           last == CHOOSE i \in 1..Len(code) :
                     ~IsSpace(code[i]) /\ \A j \in (i + 1)..Len(code) : IsSpace(code[j])
       IN SubSeq(code, first, last)

\* The text holds sub at the position i.
HoldsAt(text, sub, i) ==
  i >= 1 /\ i + Len(sub) - 1 <= Len(text) /\ SubSeq(text, i, i + Len(sub) - 1) = sub

\* text.includes(sub)
Includes(text, sub) == \E i \in 1..Len(text) : HoldsAt(text, sub, i)

\* The checks of validatePattern on a pattern text: whether the text is
\* valid, and whether it starts with one of the common functions, which is
\* only logged.
validatePattern(code) ==
  LET trimmed == Trim(code)
      n == Len(trimmed)
      quotes == {"\"", "'"}
      word == {"a", "b", "c", "d", "e", "f", "g", "h", "i", "j", "k", "l", "m", "n", "o",
               "p", "q", "r", "s", "t", "u", "v", "w", "x", "y", "z", "0", "1", "2", "3",
               "4", "5", "6", "7", "8", "9", "_"}
      \* /^["'][^"']*["']\s*\./
      leadingString ==
        /\ n >= 1 /\ trimmed[1] \in quotes
        /\ \E j \in 2..n : \E k \in (j + 1)..n :
             /\ trimmed[j] \in quotes /\ \A i \in 2..(j - 1) : trimmed[i] \notin quotes
             /\ trimmed[k] = "." /\ \A i \in (j + 1)..(k - 1) : IsSpace(trimmed[i])
      count(c, i) == Cardinality({ j \in 1..i : trimmed[j] = c })
      balanced(open, close) ==
        /\ \A i \in 1..n : count(close, i) <= count(open, i)
        /\ count(open, n) = count(close, n)
      startsValid ==
        \E fn \in validStarters :
          HoldsAt(trimmed, fn \o <<"(">>, 1) \/ HoldsAt(trimmed, fn \o <<" ", "(">>, 1)
      \* /;/ and /\b(let|const|var)\s/
      statements ==
        \/ Includes(trimmed, <<";">>)
        \/ \E kw \in { <<"l", "e", "t">>, <<"c", "o", "n", "s", "t">>, <<"v", "a", "r">> } :
           \E i \in 1..n :
             /\ HoldsAt(trimmed, kw, i)
             /\ i = 1 \/ trimmed[i - 1] \notin word
             /\ i + Len(kw) <= n /\ IsSpace(trimmed[i + Len(kw)])
      reason ==
        IF trimmed = <<>> THEN "Empty pattern"
        ELSE IF /\ leadingString
                /\ ~HoldsAt(trimmed, <<"n", "o", "t", "e", "(">>, 1)
                /\ ~HoldsAt(trimmed, <<"s", "(">>, 1)
                /\ ~HoldsAt(trimmed, <<"s", "o", "u", "n", "d", "(">>, 1)
        THEN "Pattern starts with invalid string literal"
        ELSE IF ~balanced("(", ")") THEN "Unbalanced parentheses"
        ELSE IF ~balanced("[", "]") THEN "Unbalanced brackets"
        ELSE IF statements THEN "Pattern contains statements - must be single expression"
        ELSE ""
  IN [ valid |-> reason = "", reason |-> reason, startsValid |-> startsValid ]

\* The pieces the pattern texts are put together from.
PatternPieces ==
  { <<"n", "o", "t", "e", "(">>, <<"f", "o", "o", "(">>, <<")">>, <<"[">>, <<"]">>, <<";">>,
    <<"l", "e", "t", " ">>, <<"x">>, <<"\"", "a", "\"", ".">>, <<" ">> }

\* The longest pattern text, in pieces.
MaxPieces == 3

RECURSIVE PatternsOf(_)
PatternsOf(n) ==
  IF n = 0 THEN {<<>>}
  ELSE PatternsOf(n - 1) \cup { t \o piece : t \in PatternsOf(n - 1), piece \in PatternPieces }

\* playPattern(code): the player is initialized or not, the pattern is
\* validated and replaced by the fallback when invalid, the result is
\* evaluated, and the fallback is evaluated when that throws.
PlayPattern(initOk, evalOk, fallbackOk) ==
  /\ player.pc = "called"
  /\ LET validation == validatePattern(player.code)
         patternToPlay == IF validation.valid THEN player.code ELSE FALLBACK_PATTERN
     IN player' =
          IF ~initOk
          THEN [ player EXCEPT !.pc = "done", !.isPlaying = FALSE ]
          ELSE IF evalOk
          THEN [ player EXCEPT !.pc = "done", !.evaluated = <<patternToPlay>>,
                               !.currentPattern = patternToPlay, !.isPlaying = TRUE ]
          ELSE IF fallbackOk
          THEN [ player EXCEPT !.pc = "done", !.evaluated = <<patternToPlay, FALLBACK_PATTERN>>,
                               !.currentPattern = FALLBACK_PATTERN, !.isPlaying = TRUE ]
          ELSE [ player EXCEPT !.pc = "done", !.evaluated = <<patternToPlay, FALLBACK_PATTERN>>,
                               !.isPlaying = FALSE ]
  /\ UNCHANGED <<genVars, storeVars, pitchVars, callVars, nextPattern, journey, serverVars>>

InitPlayer ==
  /\ InitGenerator /\ NoPitch /\ NoCall /\ nextPattern = Null /\ journey = Null /\ NoServer
  /\ \E code \in PatternsOf(MaxPieces) :
       player = [ pc |-> "called", code |-> code, evaluated |-> <<>>,
                  currentPattern |-> <<>>, isPlaying |-> FALSE ]

NextPlayer == \E initOk, evalOk, fallbackOk \in BOOLEAN : PlayPattern(initOk, evalOk, fallbackOk)

SpecPlayer == InitPlayer /\ [][NextPlayer]_vars

(***************************************************************************)
(* journey-manager.ts: the energy arc                                      *)
(***************************************************************************)

\* How many patterns the manager counts.
MaxAdvances == 126

\* The duration of each phase in ARC_DEFINITIONS.
ARC_DEFINITIONS ==
  [ intro |-> 2, build |-> 4, peak |-> 3, plateau |-> 4, release |-> 3, outro |-> 2 ]

ARC_SEQUENCE == <<"intro", "build", "peak", "plateau", "release", "outro">>

\* createArc(phase)
createArc(phase) ==
  [ phase |-> phase, patternsInPhase |-> 0, phaseDuration |-> ARC_DEFINITIONS[phase] ]

\* A variant of PhaseOver that lets a phase run one pattern longer.
PhaseOverLate(arc) == arc.patternsInPhase > arc.phaseDuration

\* this.currentArc.patternsInPhase >= this.currentArc.phaseDuration
PhaseOver(arc) == arc.patternsInPhase >= arc.phaseDuration

\* The manager after advancePattern().
Advanced(manager) ==
  LET generated == manager.patternsGenerated + 1
      arc == [ manager.currentArc EXCEPT !.patternsInPhase = @ + 1 ]
      nextIndex == (IndexOf(ARC_SEQUENCE, arc.phase) + 1) % Len(ARC_SEQUENCE)
  IN IF PhaseOver(arc)
     THEN [ currentArc |-> createArc(ARC_SEQUENCE[nextIndex + 1]),
            patternsGenerated |-> generated, arcStartPattern |-> generated ]
     ELSE [ manager EXCEPT !.currentArc = arc, !.patternsGenerated = generated ]

\* advancePattern()
AdvancePattern ==
  /\ journey # Null /\ journey.patternsGenerated < MaxAdvances
  /\ journey' = Advanced(journey)
  /\ UNCHANGED <<genVars, storeVars, pitchVars, callVars, nextPattern, player, serverVars>>

\* reset()
ResetJourney ==
  /\ journey # Null
  /\ journey' = [ currentArc |-> createArc("intro"), patternsGenerated |-> 0,
                  arcStartPattern |-> 0 ]
  /\ UNCHANGED <<genVars, storeVars, pitchVars, callVars, nextPattern, player, serverVars>>

\* A manager as its constructor leaves it.
InitJourney ==
  /\ InitGenerator /\ NoPitch /\ NoCall /\ nextPattern = Null /\ player = Null /\ NoServer
  /\ journey = [ currentArc |-> createArc("intro"), patternsGenerated |-> 0,
                 arcStartPattern |-> 0 ]

NextJourney == AdvancePattern \/ ResetJourney

SpecJourney == InitJourney /\ [][NextJourney]_vars

(***************************************************************************)
(* index.ts: the radio server.  A pattern is its id, a number that stands  *)
(* for the uuid; 0 stands for null.                                        *)
(***************************************************************************)

\* How many patterns the generation loop produces.
MaxGenerations == 22

MAX_PATTERN_HISTORY == 10

\* list.push(x); if (list.length > max) list.shift();
\* A variant of PushCapped that never shifts.
PushUncapped(list, x, max) == Append(list, x)

PushCapped(list, x, max) ==
  IF Len(list) + 1 > max THEN Tail(Append(list, x)) ELSE Append(list, x)

\* A variant of Busy that never holds.
NeverBusy(state) == FALSE

\* radioState.isGenerating, as generateAndBroadcast and the interval test it.
Busy(state) == state.isGenerating

\* generateAndBroadcast() up to its await: it returns at once while a
\* generation is under way; otherwise it sets isGenerating, broadcasts
\* ai_status and calls generateNextPattern.  loop is the generation loop as
\* the caller leaves it.
GenerateAndBroadcast(loop) ==
  /\ radioState.totalPatternsPlayed + loop.inFlight < MaxGenerations
  /\ IF Busy(radioState)
     THEN /\ generation' = [ loop EXCEPT !.call = "returned" ]
          /\ UNCHANGED radioState
     ELSE /\ radioState' = [ radioState EXCEPT !.isGenerating = TRUE ]
          /\ generation' = [ loop EXCEPT !.inFlight = @ + 1, !.call = "started",
                                         !.status = "generating" ]

\* startGenerationLoop(), called once the server listens: the first
\* generateAndBroadcast and the interval.
StartGenerationLoop ==
  /\ radioState # Null /\ ~generation.interval
  /\ GenerateAndBroadcast([ generation EXCEPT !.interval = TRUE ])
  /\ UNCHANGED <<genVars, storeVars, pitchVars, callVars, nextPattern, player, journey,
                 clients, chatMessages, feedback>>

\* The callback of the interval: if (!radioState.isGenerating) generateAndBroadcast()
IntervalTick ==
  /\ radioState # Null /\ generation.interval
  /\ IF Busy(radioState)
     THEN /\ generation' = [ generation EXCEPT !.call = "skipped" ]
          /\ UNCHANGED radioState
     ELSE GenerateAndBroadcast(generation)
  /\ UNCHANGED <<genVars, storeVars, pitchVars, callVars, nextPattern, player, journey,
                 clients, chatMessages, feedback>>

\* generateAndBroadcast() from its await on: generateNextPattern has settled
\* with a pattern, whose patternCode is a string or, when the answer had
\* none, undefined.  The state is updated and the pattern broadcast; the
\* closing pattern.patternCode.slice throws for an undefined patternCode,
\* which the catch block reports; the finally block clears isGenerating.
GenerationSettles(hasCode) ==
  /\ radioState # Null /\ generation.inFlight > 0
  /\ LET pattern == radioState.totalPatternsPlayed + 1
     IN radioState' =
          [ radioState EXCEPT
              !.currentPattern = pattern,
              !.patternHistory = PushCapped(@, pattern, MAX_PATTERN_HISTORY),
              !.totalPatternsPlayed = @ + 1,
              !.isGenerating = FALSE ]
  /\ journey' = Advanced(journey)
  /\ generation' = [ generation EXCEPT !.inFlight = @ - 1, !.status = "idle",
                                       !.error = ~hasCode ]
  /\ UNCHANGED <<genVars, storeVars, pitchVars, callVars, nextPattern, player,
                 clients, chatMessages, feedback>>

(***************************************************************************)
(* feedback-manager.ts: the FeedbackManager.  votes maps the pattern ids    *)
(* that have a record to the record; call is the last call made.            *)
(***************************************************************************)

MAX_FEEDBACK_HISTORY == 20

NewFeedbackManager == [ votes |-> << >>, feedbackHistory |-> << >>, call |-> Null ]

\* getFeedback(patternId)
getFeedback(manager, patternId) ==
  [ patternId |-> patternId,
    upvotes |-> IF patternId \in DOMAIN manager.votes
                THEN Cardinality(manager.votes[patternId].upvotes) ELSE 0,
    downvotes |-> IF patternId \in DOMAIN manager.votes
                  THEN Cardinality(manager.votes[patternId].downvotes) ELSE 0 ]

\* getListenerVote(patternId, listenerId), 0 standing for null
getListenerVote(manager, patternId, listenerId) ==
  IF patternId \notin DOMAIN manager.votes THEN 0
  ELSE IF listenerId \in manager.votes[patternId].upvotes THEN 1
  ELSE IF listenerId \in manager.votes[patternId].downvotes THEN -1
  ELSE 0

\* updateHistory(feedback)
updateHistory(history, fb) ==
  IF \E i \in 1..Len(history) : history[i].patternId = fb.patternId
  THEN LET existingIndex == CHOOSE i \in 1..Len(history) :
                              /\ history[i].patternId = fb.patternId
                              /\ \A j \in 1..(i - 1) : history[j].patternId # fb.patternId
       IN [ history EXCEPT ![existingIndex] = fb ]
  ELSE PushCapped(history, fb, MAX_FEEDBACK_HISTORY)

\* A variant of Deleted that deletes nothing.
NotDeleted(set, listenerId) == set

\* set.delete(listenerId)
Deleted(set, listenerId) == set \ {listenerId}

\* recordVote(patternId, listenerId, value): the manager after the call.
recordVote(manager, patternId, listenerId, value) ==
  LET record == IF patternId \in DOMAIN manager.votes THEN manager.votes[patternId]
                ELSE [ upvotes |-> {}, downvotes |-> {} ]
      upvotes == Deleted(record.upvotes, listenerId)
      downvotes == Deleted(record.downvotes, listenerId)
      voted == [ upvotes |-> IF value = 1 THEN upvotes \cup {listenerId} ELSE upvotes,
                 downvotes |-> IF value = 1 THEN downvotes ELSE downvotes \cup {listenerId} ]
      votes == [ q \in DOMAIN manager.votes \cup {patternId} |->
                   IF q = patternId THEN voted ELSE manager.votes[q] ]
      counted == [ manager EXCEPT !.votes = votes ]
  IN [ votes |-> votes,
       feedbackHistory |-> updateHistory(manager.feedbackHistory,
                                         getFeedback(counted, patternId)),
       call |-> [ op |-> "recordVote", patternId |-> patternId, listenerId |-> listenerId,
                  value |-> value,
                  previous |-> getListenerVote(manager, patternId, listenerId) ] ]

\* removeListener(listenerId): the manager after the call.
removeListener(manager, listenerId) ==
  [ manager EXCEPT
      !.votes = [ q \in DOMAIN manager.votes |->
                    [ upvotes |-> Deleted(manager.votes[q].upvotes, listenerId),
                      downvotes |-> Deleted(manager.votes[q].downvotes, listenerId) ] ],
      !.call = [ op |-> "removeListener", listenerId |-> listenerId ] ]

\* cleanup(activePatternIds): the manager after the call.
cleanup(manager, activePatternIds) ==
  [ manager EXCEPT
      !.votes = [ q \in DOMAIN manager.votes \cap activePatternIds |-> manager.votes[q] ],
      !.call = [ op |-> "cleanup", active |-> activePatternIds ] ]

\* The pattern ids and listener ids the calls of SpecFeedback pass.
PatternIds == {1, 2}

Usernames == {"ann", "bob"}

RecordVote(patternId, listenerId, value) ==
  /\ feedback' = recordVote(feedback, patternId, listenerId, value)
  /\ UNCHANGED <<genVars, storeVars, pitchVars, callVars, nextPattern, player, journey,
                 radioState, generation, clients, chatMessages>>

RemoveListener(listenerId) ==
  /\ feedback' = removeListener(feedback, listenerId)
  /\ UNCHANGED <<genVars, storeVars, pitchVars, callVars, nextPattern, player, journey,
                 radioState, generation, clients, chatMessages>>

Cleanup(activePatternIds) ==
  /\ feedback' = cleanup(feedback, activePatternIds)
  /\ UNCHANGED <<genVars, storeVars, pitchVars, callVars, nextPattern, player, journey,
                 radioState, generation, clients, chatMessages>>

\* A manager as its constructor leaves it.
InitFeedback ==
  /\ InitGenerator /\ NoPitch /\ NoCall /\ nextPattern = Null /\ player = Null
  /\ journey = Null /\ radioState = Null /\ generation = Null
  /\ clients = Null /\ chatMessages = Null
  /\ feedback = NewFeedbackManager

\* The calls on the manager, in any order.
NextFeedback ==
  \/ \E p \in PatternIds : \E l \in Usernames : \E v \in {1, -1} : RecordVote(p, l, v)
  \/ \E l \in Usernames : RemoveListener(l)
  \/ \E active \in SUBSET PatternIds : Cleanup(active)

SpecFeedback == InitFeedback /\ [][NextFeedback]_vars

(***************************************************************************)
(* index.ts: the WebSocket handlers.  clients holds the open connections,   *)
(* the clients map (the username of each joined connection) and, for each   *)
(* open connection, the last vote it cast.  A chat message is its id, a     *)
(* number that stands for the uuid.                                         *)
(***************************************************************************)

MAX_CHAT_MESSAGES == 50

\* How many join and chat messages the connections send.
MaxMessages == 52

\* How many join messages the connections of SpecListeners send, and how
\* many patterns they are given to vote on.
MaxJoins == 3

MaxRatedPatterns == 2

Connections == {1, 2}

NoClients == [ open |-> {}, usernames |-> << >>, cast |-> << >> ]

\* clients.get(ws) || fallback
UsernameOr(ws, fallback) ==
  IF ws \in DOMAIN clients.usernames THEN clients.usernames[ws] ELSE fallback

\* The id of the message pushed last, 0 when there is none.
LastMessageId == IF chatMessages = << >> THEN 0 ELSE chatMessages[Len(chatMessages)]

\* chatMessages.push(message); if (chatMessages.length > MAX_CHAT_MESSAGES) chatMessages.shift()
ChatPushed ==
  PushCapped(chatMessages,
             LastMessageId + 1,
             MAX_CHAT_MESSAGES)

\* wss.on('connection')
Connection(ws) ==
  /\ clients # Null /\ ws \notin clients.open
  /\ clients' = [ clients EXCEPT !.open = @ \cup {ws} ]
  /\ UNCHANGED <<genVars, storeVars, pitchVars, callVars, nextPattern, player, journey,
                 radioState, generation, chatMessages, feedback>>

\* ws.on('message'), case 'join'
Join(ws, username) ==
  /\ clients # Null /\ ws \in clients.open
  /\ LastMessageId < MaxMessages
  /\ clients' = [ clients EXCEPT
                    !.usernames = [ c \in DOMAIN @ \cup {ws} |->
                                      IF c = ws THEN username ELSE @[c] ] ]
  /\ chatMessages' = ChatPushed
  /\ UNCHANGED <<genVars, storeVars, pitchVars, callVars, nextPattern, player, journey,
                 radioState, generation, feedback>>

\* ws.on('message'), case 'chat'
Chat(ws) ==
  /\ clients # Null /\ ws \in clients.open
  /\ LastMessageId < MaxMessages
  /\ chatMessages' = ChatPushed
  /\ UNCHANGED <<genVars, storeVars, pitchVars, callVars, nextPattern, player, journey,
                 radioState, generation, clients, feedback>>

\* ws.on('message'), case 'vote'
Vote(ws, patternId, value) ==
  /\ clients # Null /\ ws \in clients.open
  /\ IF radioState.currentPattern # 0 /\ patternId = radioState.currentPattern
     THEN LET listenerId == UsernameOr(ws, "anonymous")
          IN /\ feedback' = recordVote(feedback, patternId, listenerId, value)
             /\ clients' = [ clients EXCEPT
                               !.cast = [ c \in DOMAIN @ \cup {ws} |->
                                            IF c = ws
                                            THEN [ patternId |-> patternId,
                                                   listenerId |-> listenerId,
                                                   value |-> value ]
                                            ELSE @[c] ] ]
     ELSE UNCHANGED <<feedback, clients>>
  /\ UNCHANGED <<genVars, storeVars, pitchVars, callVars, nextPattern, player, journey,
                 radioState, generation, chatMessages>>

\* ws.on('close')
Close(ws) ==
  /\ clients # Null /\ ws \in clients.open
  /\ feedback' = IF ws \in DOMAIN clients.usernames
                 THEN removeListener(feedback, clients.usernames[ws])
                 ELSE feedback
  /\ clients' = [ open |-> clients.open \ {ws},
                  usernames |-> [ c \in DOMAIN clients.usernames \ {ws} |->
                                    clients.usernames[c] ],
                  cast |-> [ c \in DOMAIN clients.cast \ {ws} |-> clients.cast[c] ] ]
  /\ UNCHANGED <<genVars, storeVars, pitchVars, callVars, nextPattern, player, journey,
                 radioState, generation, chatMessages>>

\* The server as its module leaves it, before server.listen calls back.
InitServer ==
  /\ InitGenerator /\ NoPitch /\ NoCall /\ nextPattern = Null /\ player = Null
  /\ journey = [ currentArc |-> createArc("intro"), patternsGenerated |-> 0,
                 arcStartPattern |-> 0 ]
  /\ radioState = [ currentPattern |-> 0, patternHistory |-> <<>>,
                    totalPatternsPlayed |-> 0, isGenerating |-> FALSE ]
  /\ generation = [ interval |-> FALSE, inFlight |-> 0, call |-> "none",
                    status |-> "none", error |-> FALSE ]
  /\ clients = NoClients
  /\ chatMessages = << >>
  /\ feedback = NewFeedbackManager

\* The generation loop alone.
NextLoop ==
  \/ StartGenerationLoop
  \/ IntervalTick
  \/ \E hasCode \in BOOLEAN : GenerationSettles(hasCode)

\* The awaited generateNextPattern call settles: its requests end or fail.
SpecLoop ==
  /\ InitServer /\ [][NextLoop]_vars
  /\ WF_vars(\E hasCode \in BOOLEAN : GenerationSettles(hasCode))

\* Listeners: connections that join, vote on the current pattern and close,
\* while the loop generates the patterns they vote on.
NextListeners ==
  \/ StartGenerationLoop
  \/ radioState.totalPatternsPlayed + generation.inFlight < MaxRatedPatterns /\ IntervalTick
  \/ GenerationSettles(TRUE)
  \/ \E ws \in Connections : Connection(ws)
  \/ \E ws \in Connections : \E username \in Usernames :
       Len(chatMessages) < MaxJoins /\ Join(ws, username)
  \/ \E ws \in Connections : \E patternId \in PatternIds : \E value \in {1, -1} :
       Vote(ws, patternId, value)
  \/ \E ws \in Connections : Close(ws)

SpecListeners == InitServer /\ [][NextListeners]_vars

\* How many generated patterns may be without a vote at a time in SpecHistory.
MaxUnrated == 1

\* Histories: the loop generates patterns while one connection joins, chats
\* and, once joined, votes once on the current pattern.
NextHistory ==
  \/ StartGenerationLoop
  \/ IntervalTick
  \/ /\ radioState.totalPatternsPlayed - Cardinality(DOMAIN feedback.votes) < MaxUnrated
     /\ \E hasCode \in BOOLEAN : GenerationSettles(hasCode)
  \/ Connection(1)
  \/ Join(1, "ann")
  \/ Chat(1)
  \/ /\ 1 \in DOMAIN clients.usernames
     /\ radioState.currentPattern \notin DOMAIN feedback.votes
     /\ Vote(1, radioState.currentPattern, 1)

SpecHistory == InitServer /\ [][NextHistory]_vars

(***************************************************************************)
(* Properties                                                              *)
(***************************************************************************)

\* The running call continues the segment whose SegmentInfo is info: its
\* context was populated from info, and its style is the style of that segment.
ContinuesInfo ==
  /\ pc = "loop" /\ info # Null
  /\ context = ContextFromInfo(info)
  /\ infoStyle = options.style

\* C1: when segment B is generated with the context populated from segment
\* A's SegmentInfo under the same style, B's bar 0 takes its chord from the
\* progression entry at A's progressionPosition (the progression is looped:
\* the entry is the position modulo the length), B works with the very motif
\* of A and generates no fresh one, and B returns that motif.
C1_Continuity ==
  /\ ContinuesInfo =>
       /\ motif = info.motif
       /\ (lastBar # Null /\ lastBar.bar = 0) =>
            /\ lastBar.chordIndex
                 = info.progressionPosition % Len(getProgression(options.style))
            /\ lastBar.chord = getProgression(options.style)[lastBar.chordIndex + 1]
  /\ (pc = "idle" /\ calls > 0 /\ ~threw /\ HasMotif(context)) =>
       info.motif = context.motif

\* A continuing call has played its bar 0 on a progression entry other than
\* the first, with the motif of the segment it continues.
C1_Witness ==
  /\ ContinuesInfo
  /\ lastBar # Null /\ lastBar.bar = 0
  /\ info.progressionPosition > 0
  /\ lastBar.chordIndex = info.progressionPosition
  /\ motif = info.motif /\ motif.id = 1 /\ motifCount = 1

\* C2: after updateSessionWithSegment stored a SegmentInfo, the context
\* getContinuationContext returns carries that SegmentInfo's
\* progressionPosition, dynamics, endingNotes (as lastNotes) and motif.
C2_StoreThreadsState ==
  (pc = "idle" /\ stored /\ session # Null /\ info # Null /\ info.bars > 0) =>
    LET c == getContinuationContext(session)
    IN /\ c # Null
       /\ c.progressionPosition = info.progressionPosition
       /\ c.dynamics = info.dynamics
       /\ c.lastNotes = info.endingNotes
       /\ c.motif = info.motif

\* C3: the progressionPosition of every returned SegmentInfo is an index of
\* the progression of the style the segment was generated in.
C3_PositionInRange ==
  (pc = "idle" /\ info # Null) =>
    info.progressionPosition \in 0..(Len(getProgression(infoStyle)) - 1)

\* C4: every melody note generateMelody emits has a MIDI number within the
\* octaveRange of the style of the call, from (low + 1) * 12 to
\* (high + 1) * 12 + 11, whatever segment the call continues.
C4_MelodyInRange ==
  (pc = "loop" /\ mel # Null /\ mel.pos >= 0) =>
    LET octaveRange == StyleParamsFor(options.style).octaveRange
    IN mel.midi \in RangeLow(octaveRange)..RangeHigh(octaveRange)

\* C5: midiToNote(noteToMidi(p)) = p for every pitch name p of a letter
\* A-G, an optional sharp and an octave numeral; the flat name "Bb2" comes
\* back as its sharp spelling "A#2".
C5_RoundTrip ==
  pitchPc = "back" =>
    /\ MatchSplit(pitchName) # 0 => pitchBack = pitchName
    /\ pitchName = <<"B", "b", "2">> => pitchBack = <<"A", "#", "2">>

\* C6: generateSegment never throws: every call returns a SegmentInfo.
C6_NeverThrows == ~threw

\* The style names that appear in none of the per-style tables.
UnknownStyles ==
  StyleChoices \ (DOMAIN STYLE_PARAMS \cup DOMAIN PROGRESSIONS \cup DOMAIN DRUM_PATTERNS
                    \cup DOMAIN INSTRUMENTS \cup DOMAIN RATES)

\* C7: under a style name that is in none of the style tables, every
\* per-style lookup of a bar yields the value it yields under 'ambient':
\* style parameters, instruments, progression, progression rate and drum
\* pattern.
C7_UnknownStyleIsAmbient ==
  (pc = "loop" /\ lastBar # Null /\ options.style \in UnknownStyles) =>
    /\ StyleParamsFor(options.style) = STYLE_PARAMS.ambient
    /\ getInstrumentsForStyle(options.style) = INSTRUMENTS.ambient
    /\ lastBar.chord = getProgression("ambient")[lastBar.chordIndex + 1]
    /\ lastBar.rate = getProgressionRate("ambient")
    /\ (lastBar.drums # Null => lastBar.drums = DrumPatternFor("ambient"))

\* C8: the baseVelocity a bar hands to its track generators, section
\* velocityMod included, lies in [40, 100] (hundredths: 4000..10000).
C8_BaseVelocityClamped ==
  (pc = "loop" /\ lastBar # Null) => lastBar.baseVelocity \in 4000..10000

\* velocityTrend within [-1, 1.2], in hundredths.
TrendInRange(d) == d.velocityTrend \in -100..120

\* C9: the velocityTrend lies in [-1, 1.2] after every bar, in every
\* SegmentInfo returned, in every state stored and in every context handed
\* to a continuing call, along any chain of segments.
C9_TrendBounded ==
  /\ TrendInRange(dynamics)
  /\ info # Null => TrendInRange(info.dynamics)
  /\ context # Null => TrendInRange(context.dynamics)
  /\ session # Null => TrendInRange(session.dynamics)

\* A continuing call whose trend, after a bar, sits on the upper bound.
C9_Witness ==
  /\ pc = "loop" /\ calls = 2 /\ context # Null /\ bar > 0
  /\ context.dynamics.velocityTrend > 0
  /\ dynamics.velocityTrend = 120

\* A bar of a first segment of the default length in style 'ambient' has
\* been generated.
FirstAmbientSegmentBar ==
  /\ pc = "loop" /\ lastBar # Null
  /\ options.style = "ambient" /\ options.bars = DefaultBars
  /\ options.totalBarsOffset = 0 /\ context = Null

\* C10 as stated: in a 16-bar 'ambient' first segment the melody generator
\* is not called in the intro bars 0-1 nor in the outro bars 14-15.
C10_NoMelodyInIntroAndOutro ==
  FirstAmbientSegmentBar =>
    (lastBar.bar \in {0, 1, 14, 15} => ~lastBar.melody)

\* C10 amended: in a 16-bar 'ambient' first segment bars 0-1 are the intro
\* and bars 14-15 the outro; the melody generator is skipped in the intro
\* bars only, and is called in every other bar, the outro bars included.
C10_MelodySkippedInIntroOnly ==
  FirstAmbientSegmentBar =>
    /\ lastBar.section = "intro" <=> lastBar.bar \in {0, 1}
    /\ lastBar.section = "outro" <=> lastBar.bar \in {14, 15}
    /\ lastBar.melody <=> lastBar.bar \notin {0, 1}

\* The melody generator was called in the outro bar 14.
C10_Witness ==
  /\ FirstAmbientSegmentBar
  /\ lastBar.bar = 14 /\ lastBar.section = "outro" /\ lastBar.melody

\* C12: in an extension (totalBarsOffset > 0) with direction 'peak',
\* getSongSection returns 'climax' for every bar whose local position
\* bar / bars lies in [0.1, 0.85), and only ever 'build' or 'climax'.
C12_PeakIsClimax ==
  (callPc = "done" /\ callArgs.totalBarsOffset > 0
     /\ callArgs.extensionDirection = "peak") =>
    /\ callResult \in {"build", "climax"}
    /\ (10 * callArgs.barNumber >= callArgs.totalBars
          /\ 100 * callArgs.barNumber < 85 * callArgs.totalBars) => callResult = "climax"

\* Bar 1 of a 10-bar 'peak' extension, at local position 0.1 exactly, is 'climax'.
C12_Witness ==
  /\ callPc = "done" /\ callArgs.totalBarsOffset > 0
  /\ callArgs.extensionDirection = "peak"
  /\ callArgs.barNumber = 1 /\ callArgs.totalBars = 10
  /\ callResult = "climax"

\* C11: for the current note C4 in C major over the C major chord, with
\* direction 0 and leap = false, the summed weight of the candidates at an
\* interval of at most 2 semitones exceeds the summed weight of the leap
\* candidates at an interval of 3 to 7 semitones.
C11_StepwiseFavoured ==
  (callPc = "weighted" /\ callArgs.currentNote = <<"C", "4">>
     /\ callArgs.direction = 0 /\ ~callArgs.leap) =>
    WeightWhere(callResult, 60, 0, 2)
      > WeightWhere(callResult, 60, 3, 7)

\* C13: every note event the five track generators append, in every bar,
\* style, section and dynamics state, has a velocity within [1, 127] and a
\* startTick of at least 0.
C13_EventsInRange ==
  callPc = "event" =>
    /\ callResult.velocity >= 100 /\ callResult.velocity <= 12700
    /\ callResult.startTick >= 0

\* A hi-hat of the outro and a drum hit at tick 0 of a peak extension are
\* clamped from below; a melody note of the climax is clamped from above.
C13_Witness ==
  /\ callPc = "event"
  /\ \/ callResult.track = "drums" /\ callResult.velocity = 100
     \/ callResult.track = "drums" /\ callResult.startTick = 0 /\ callArgs.bar = 0
     \/ callResult.track = "melody" /\ callResult.velocity = 12700

\* C14: generateSegment leaves the ContinuationContext it was given
\* unchanged: during the call and after it the context object (its
\* progressionPosition, dynamics, motif and lastNotes) is as it was when the
\* call was made.
C14_ContextUnchanged == context = given

\* A call that was given a context has returned with dynamics that differ
\* from the context's.
C14_Witness ==
  /\ pc = "idle" /\ info # Null /\ ~threw
  /\ given # Null /\ options.bars >= 1
  /\ info.dynamics # given.dynamics

\* C15: durationSeconds * tempo == bars * 240 for every bars in
\* {1, 8, 16, 32, 64} and every tempo in {60, 90, 120, 140}.
C15_DurationLaw ==
  (callPc = "done" /\ callArgs.bars \in {1, 8, 16, 32, 64}
     /\ callArgs.tempo \in {60, 90, 120, 140}) =>
    Fmul(callResult, callArgs.tempo) = Fdiv(callArgs.bars * 240, 1)

C17_OnlyCheckedPatterns ==
  player.pc = "done" =>
    \A i \in 1..Len(player.evaluated) :
      \/ player.evaluated[i] = FALLBACK_PATTERN
      \/ /\ validatePattern(player.evaluated[i]).valid
         /\ validatePattern(player.evaluated[i]).startsValid

\* C18: the energy arc runs through intro, build, peak, plateau, release and
\* outro in this order, each phase lasting 2, 4, 3, 4, 3 and 2 patterns;
\* patternsInPhase stays below phaseDuration in every state, and 18 advances
\* after a fresh start or a reset the arc is at intro with patternsInPhase 0.
C18_ArcCycle ==
  LET k == journey.patternsGenerated % 18
      arc == journey.currentArc
      expected ==
        IF k < 2 THEN <<"intro", k>>
        ELSE IF k < 6 THEN <<"build", k - 2>>
        ELSE IF k < 9 THEN <<"peak", k - 6>>
        ELSE IF k < 13 THEN <<"plateau", k - 9>>
        ELSE IF k < 16 THEN <<"release", k - 13>>
        ELSE <<"outro", k - 16>>
  IN /\ arc.patternsInPhase < arc.phaseDuration
     /\ <<arc.phase, arc.patternsInPhase>> = expected
     /\ arc.phaseDuration = ARC_DEFINITIONS[arc.phase]
     /\ journey.arcStartPattern = journey.patternsGenerated - arc.patternsInPhase

\* Eighteen patterns after the start the arc is at the intro again.
C18_Witness ==
  /\ journey.patternsGenerated = 18
  /\ journey.currentArc.phase = "intro" /\ journey.currentArc.patternsInPhase = 0

\* C19: in the closing bar of a phrase in which the melody plays at least one
\* note, the last note of the bar has the pitch class of the phrase's target
\* scale degree, in every style and after every previous note.
C19_PhraseResolves ==
  (pc = "loop" /\ mel # Null /\ mel.done /\ IsEndOfPhrase(bar))
    => LET scale == getScale(options.key, options.mode, 4)
           phraseTargetNote == scale[(mel.targetResolution % Len(scale)) + 1]
       IN noteToMidi(mel.note) % 12 = noteToMidi(phraseTargetNote) % 12

\* C20: a segment continued from another one, its context.lastNotes being
\* the endingNotes of that segment, starts its melody from the final melody
\* note of that segment, the note recorded for its last bar.
C20_ContinuesFromFinalNote ==
  (/\ pc = "loop" /\ bar = 0 /\ mel = Null
   /\ given # Null /\ info # Null
   /\ given.lastNotes = info.endingNotes
   /\ info.endingNotes.melody # <<>>)
    => lastMelodyNote = info.endingNotes.melody[Len(info.endingNotes.melody)].note

\* C21: in every segment, continuations with any offset and direction
\* included, the drum generator is asked for a fill in a bar exactly when the
\* planner, under the same totalBars, totalBarsOffset and extensionDirection,
\* assigns another section to the bar after it.
C21_FillAtSectionEnd ==
  (pc = "loop" /\ lastBar # Null /\ lastBar.drums # Null)
    => (lastBar.fill <=>
          getSongSection(lastBar.bar + 1, options.bars, options.totalBarsOffset,
                         options.extensionDirection) # lastBar.section)

\* C22: in every verse, build or climax bar of style 'jazz' the last of the
\* four walking-bass notes is one semitone below the root of the chord at the
\* next progression position, in pitch class.
C22_ApproachesNextRoot ==
  (pc = "loop" /\ lastBar # Null /\ lastBar.walking # <<>>)
    => LET progression == getProgression(options.style)
           next == progression[((lastBar.chordIndex + 1) % Len(progression)) + 1]
           nextRoot == getChordFromDegree(options.key, options.mode, next[1], next[2], 3)[1]
       IN /\ IsString(lastBar.walking[4]) /\ IsString(nextRoot)
          /\ noteToMidi(lastBar.walking[4]) % 12 = (noteToMidi(nextRoot) + 11) % 12

C24_DirectionMatchesChange ==
  [][(pc = "loop" /\ pc' = "loop" /\ bar' = bar + 1)
       => /\ dynamics'.direction = "fading"
               => dynamics'.velocityTrend <= dynamics.velocityTrend
          /\ dynamics'.direction = "building"
               => dynamics'.velocityTrend >= dynamics.velocityTrend]_vars

\* C25: the endingChord and endingChordType of the SegmentInfo returned are
\* the root and the type of the chord of the segment's final bar, for every
\* style, start position and number of bars from 1 on.
C25_EndingChordIsFinalChord ==
  [][(pc = "loop" /\ pc' = "idle" /\ ~threw' /\ lastBar # Null)
       => LET finalBarNotes == getChordFromDegree(options.key, options.mode,
                                                  lastBar.chord[1], lastBar.chord[2], 3)
          IN /\ info'.endingChord = StripDigits(finalBarNotes[1])
             /\ info'.endingChordType = lastBar.chord[2]]_vars

\* C26: at most one pattern generation is in flight at any time; a call or
\* an interval tick that finds isGenerating set starts no generation and
\* changes no state; every generation started leads to isGenerating being
\* false again and ai_status being broadcast with isGenerating false, with or
\* without an error, so that a later tick can start the next pattern.
C26_SingleFlight ==
  /\ [](generation.inFlight <= 1 /\ (generation.inFlight = 1 <=> radioState.isGenerating))
  /\ [][radioState.isGenerating
          => /\ generation'.inFlight <= generation.inFlight
             /\ generation'.call # generation.call
                  => /\ generation'.call \in {"returned", "skipped"}
                     /\ UNCHANGED <<radioState, journey, clients, chatMessages, feedback>>]_vars
  /\ radioState.isGenerating
       ~> (~radioState.isGenerating /\ generation.status = "idle")

\* A generation ended with the error of a pattern without code, and a tick
\* arrived while the next one was under way.
C26_Witness ==
  /\ generation.error /\ radioState.totalPatternsPlayed >= 1
  /\ radioState.isGenerating /\ generation.call = "skipped"

\* C27: when a connection closes only the votes of its listener are removed:
\* whatever the order of the join, vote and close events of the connections,
\* the last vote a connection cast stays counted for its pattern as long as
\* the connection is open.
C27_OpenVotesStayCounted ==
  clients # Null
    => \A ws \in DOMAIN clients.cast :
         LET vote == clients.cast[ws]
         IN ws \in clients.open
              => getListenerVote(feedback, vote.patternId, vote.listenerId) = vote.value

\* C28: the feedback history agrees with the vote records: after any
\* sequence of recordVote, removeListener and cleanup calls every entry of
\* getRecentFeedback() has the counts of getFeedback for its pattern.
C28_HistoryIsCurrent ==
  feedback # Null
    => \A i \in 1..Len(feedback.feedbackHistory) :
         feedback.feedbackHistory[i]
           = getFeedback(feedback, feedback.feedbackHistory[i].patternId)

\* C29: a listener has at most one vote per pattern: no listener id is in
\* both sets of a pattern, a repeated vote replaces the earlier one, and the
\* upvotes and downvotes of getFeedback add up to the number of listeners
\* with a recorded vote on the pattern.
C29_OneVotePerListener ==
  feedback # Null
    => /\ \A p \in DOMAIN feedback.votes :
            /\ feedback.votes[p].upvotes \cap feedback.votes[p].downvotes = {}
            /\ getFeedback(feedback, p).upvotes + getFeedback(feedback, p).downvotes
                 = Cardinality(feedback.votes[p].upvotes \cup feedback.votes[p].downvotes)
       /\ (feedback.call # Null /\ feedback.call.op = "recordVote")
            => getListenerVote(feedback, feedback.call.patternId, feedback.call.listenerId)
                 = feedback.call.value

\* A listener who had upvoted a pattern has just downvoted it, while another
\* listener's upvote stands.
C29_Witness ==
  /\ feedback # Null /\ feedback.call # Null /\ feedback.call.op = "recordVote"
  /\ feedback.call.previous = 1 /\ feedback.call.value = -1
  /\ getFeedback(feedback, feedback.call.patternId).upvotes = 1

====
